---- MODULE Spec2Model ----
(***************************************************************************)
(* Model of the electoral-roll OCR pipeline: the block detection           *)
(* orchestrator, the anchor detector and boundary calculator               *)
(* (src/modules/ocr.js), the block extractor and page pipeline             *)
(* (src/modules/ocr.js) and the translation cache (src/unnamed/part_001).  *)
(*                                                                         *)
(* Text is modelled as a sequence of characters, each character a string:  *)
(* an ASCII character stands for itself, an Odia code point is written     *)
(* "U+0Bxx".  Confidences handed on by the anchor detector are kept in     *)
(* twentieths of a percent, so that the factors 0.8 and 0.9 and the        *)
(* average of two confidences stay integers.                               *)
(***************************************************************************)
EXTENDS Integers, Sequences, FiniteSets, TLC

VARIABLES
    fvPc, fvData, fvBlocks,
    pc, imagePath, pageW, pageH, data, voterBlocks,
    anchorOut, structOut, gridOut, recognized, entered,
    runStatus, raisedBy, nPages, pageNo, pagePc, pageBlocks,
    cropIdx, croppedBlocks, cropFailed, procIdx, processedBlocks,
    recogFailed, results,
    cache, lastRequestTime, now, tPc, tText, tNorm, tWake, tRet,
    callsFor, extCalls, extFailures, overlapped, lastIssueAt, spacingBroken,
    cacheFile, savePending, loadPending, cacheOps,
    kvPc, kvFields, kvText, kvResult, kvCanonical,
    vPc, vVoter, vResult,
    prPc, prPageNo, prBlocksLeft, prChunks, prItem, prStart, prPageVoters,
    voters, globalSerialNo, prParsed, prChecked, prCandidate,
    rlPc, ocrResults, rollParts, rollStats, rollVoters, rlConsidered,
    worker, blockDetector, workerCreated, detectorCreated,
    wPc, wPage, wHandle, wInitFailed, wHalfReturn, wNullUse,
    agPc, agText, agResult

anchorVars == <<fvPc, fvData, fvBlocks>>
detectVars == <<pc, imagePath, pageW, pageH, data, voterBlocks,
                anchorOut, structOut, gridOut, recognized, entered>>
pageVars == <<runStatus, raisedBy, nPages, pageNo, pagePc, pageBlocks,
              cropIdx, croppedBlocks, cropFailed, procIdx, processedBlocks,
              recogFailed, results>>
transVars == <<cache, lastRequestTime, now, tPc, tText, tNorm, tWake, tRet,
               callsFor, extCalls, extFailures, overlapped, lastIssueAt,
               spacingBroken, cacheFile, savePending, loadPending, cacheOps>>
cacheOpVars == <<cacheFile, savePending, loadPending, cacheOps>>
extractVars == <<kvPc, kvFields, kvText, kvResult, kvCanonical>>
validateVars == <<vPc, vVoter, vResult>>
parseVars == <<prPc, prPageNo, prBlocksLeft, prChunks, prItem, prStart,
               prPageVoters, voters, globalSerialNo, prParsed, prChecked,
               prCandidate>>
rollVars == <<rlPc, ocrResults, rollParts, rollStats, rollVoters, rlConsidered>>
workerVars == <<worker, blockDetector, workerCreated, detectorCreated,
                wPc, wPage, wHandle, wInitFailed, wHalfReturn, wNullUse>>
ageVars == <<agPc, agText, agResult>>
recordVars == <<extractVars, validateVars, parseVars, rollVars, workerVars, ageVars>>
vars == <<anchorVars, detectVars, pageVars, transVars, recordVars>>

(***************************************************************************)
(* Bounds of the model.                                                    *)
(***************************************************************************)
MaxWords == 2
MaxDetectWords == 1
MaxLines == 2
MaxPages == 2
MaxBlocks == 2
MaxCalls == 2
MaxTicks == 3
MaxCacheOps == 2
MaxFields == 2
MaxCandidates == 3
MaxRuns == 2
MaxPieces == 3

(***************************************************************************)
(* Generic helpers.                                                        *)
(***************************************************************************)
Min2(a, b) == IF a <= b THEN a ELSE b
Max2(a, b) == IF a >= b THEN a ELSE b
SetMin(S) == CHOOSE m \in S : \A n \in S : m <= n
SetMax(S) == CHOOSE m \in S : \A n \in S : m >= n
Range(s) == {s[i] : i \in DOMAIN s}
Abs(n) == IF n < 0 THEN -n ELSE n

RECURSIVE FlatMapIdx(_, _, _)
\* Concatenation of F(i) for i = lo .. hi, in order.
FlatMapIdx(F(_), lo, hi) ==
    IF lo > hi THEN <<>> ELSE F(lo) \o FlatMapIdx(F, lo + 1, hi)

(***************************************************************************)
(* Characters and the regular expressions of the anchor detector.          *)
(***************************************************************************)
UpperSeq == <<"A","B","C","D","E","F","G","H","I","J","K","L","M",
              "N","O","P","Q","R","S","T","U","V","W","X","Y","Z">>
LowerSeq == <<"a","b","c","d","e","f","g","h","i","j","k","l","m",
              "n","o","p","q","r","s","t","u","v","w","x","y","z">>
DigitChars == {"0","1","2","3","4","5","6","7","8","9"}
SpaceChars == {" ", "\t", "\n"}

IsUpper(c) == c \in Range(UpperSeq)
IsLower(c) == c \in Range(LowerSeq)
IsDigit(c) == c \in DigitChars
IsSpace(c) == c \in SpaceChars

\* String.prototype.toUpperCase on one character.
ToUpperChar(c) ==
    IF IsLower(c) THEN UpperSeq[CHOOSE i \in DOMAIN LowerSeq : LowerSeq[i] = c]
    ELSE c
ToUpperCase(s) == [i \in DOMAIN s |-> ToUpperChar(s[i])]

\* s.replace(/\s+/g, '')
StripSpaces(s) == SelectSeq(s, LAMBDA c : ~IsSpace(c))
\* s.replace(/[^A-Z0-9]/gi, '')
StripNonAlnum(s) == SelectSeq(s, LAMBDA c : IsUpper(c) \/ IsLower(c) \/ IsDigit(c))

\* word.text.replace(/\s+/g, '').replace(/[^A-Z0-9]/gi, '').toUpperCase()
CleanText(text) == ToUpperCase(StripNonAlnum(StripSpaces(text)))

\* (words[i].text + words[i + 1].text).replace(/\s+/g, '').toUpperCase()
CombinedText(t1, t2) == ToUpperCase(StripSpaces(t1 \o t2))

\* s[from .. from+n-1] exists and consists of characters of the class.
RunOf(s, from, n, InClass(_)) ==
    /\ from + n - 1 <= Len(s)
    /\ \A k \in from .. (from + n - 1) : InClass(s[k])

\* RegExp.test of /[A-Z]{minL,maxL}\d{minD,maxD}/ : a match anywhere in s.
LettersDigitsTest(s, minL, maxL, minD, maxD) ==
    \E i \in 1 .. Len(s) : \E l \in minL .. maxL : \E d \in minD .. maxD :
        /\ RunOf(s, i, l, IsUpper)
        /\ RunOf(s, i + l, d, IsDigit)

\* The whole of s is minL..maxL letters followed by minD..maxD digits.
LettersDigitsWhole(s, minL, maxL, minD, maxD) ==
    \E l \in minL .. maxL : \E d \in minD .. maxD :
        /\ Len(s) = l + d
        /\ RunOf(s, 1, l, IsUpper)
        /\ RunOf(s, 1 + l, d, IsDigit)

\* voterIdPattern = /[A-Z]{3}\d{7}/
voterIdPattern(s) == LettersDigitsTest(s, 3, 3, 7, 7)
\* relaxedPattern = /[A-Z]{2,4}\d{6,8}/
relaxedPattern(s) == LettersDigitsTest(s, 2, 4, 6, 8)

(***************************************************************************)
(* Anchor detector: the candidates of findVoterBlockBoundaries.            *)
(***************************************************************************)
\* The candidate of one word: exact match at full confidence, relaxed match
\* at 0.8 of it, both carrying the whole cleaned text as id.
WordCandidate(word) ==
    LET cleanText == CleanText(word.text)
    IN  IF voterIdPattern(cleanText)
        THEN <<[word |-> word, voterId |-> cleanText,
                confidence |-> 20 * word.confidence]>>
        ELSE IF relaxedPattern(cleanText)
        THEN <<[word |-> word, voterId |-> cleanText,
                confidence |-> 16 * word.confidence]>>
        ELSE <<>>

\* The candidate of the adjacent pair words[i], words[i+1]: 0.9 of the
\* average confidence, anchored at the first word.
PairCandidate(words, i) ==
    LET combined == CombinedText(words[i].text, words[i + 1].text)
    IN  IF voterIdPattern(combined)
        THEN <<[word |-> words[i], voterId |-> combined,
                confidence |-> 9 * (words[i].confidence + words[i + 1].confidence)]>>
        ELSE <<>>

voterIdCandidates(words) ==
    FlatMapIdx(LAMBDA i : WordCandidate(words[i]), 1, Len(words))
      \o FlatMapIdx(LAMBDA i : PairCandidate(words, i), 1, Len(words) - 1)

\* Where Array.prototype.sort (stable) with (a, b) => b.confidence - a.confidence
\* puts c in an already sorted list: behind every entry that is not smaller.
InsertDesc(sorted, c) ==
    LET n == Cardinality({k \in DOMAIN sorted : sorted[k].confidence >= c.confidence})
    IN  SubSeq(sorted, 1, n) \o <<c>> \o SubSeq(sorted, n + 1, Len(sorted))
\* The faulty order: ascending confidence.
InsertAsc(sorted, c) ==
    LET n == Cardinality({k \in DOMAIN sorted : sorted[k].confidence <= c.confidence})
    IN  SubSeq(sorted, 1, n) \o <<c>> \o SubSeq(sorted, n + 1, Len(sorted))
InsertByConfidence(sorted, c) == InsertDesc(sorted, c)

RECURSIVE SortByConfidence(_)
SortByConfidence(cands) ==
    IF cands = <<>> THEN <<>>
    ELSE InsertByConfidence(SortByConfidence(SubSeq(cands, 1, Len(cands) - 1)),
                            cands[Len(cands)])

\* seen-set filter: the first occurrence of every voterId is kept.
uniqueVoterIds(sorted) ==
    LET Keep(i) == IF \E j \in 1 .. (i - 1) : sorted[j].voterId = sorted[i].voterId
                   THEN <<>> ELSE <<sorted[i]>>
    IN  FlatMapIdx(Keep, 1, Len(sorted))

(***************************************************************************)
(* Boundary calculator.                                                    *)
(***************************************************************************)
blockHeight == 150
blockMargin == 10
rowTolerance == 30

\* nextVoterWord is <<>> (undefined) or <<word>>.
calculateBlockBoundary(currentVoterWord, nextVoterWord, allWords, imageHeight) ==
    LET currentY == currentVoterWord.bbox.y0
        rowWords == {w \in Range(allWords) : Abs(w.bbox.y0 - currentY) < rowTolerance}
        minX == SetMin({w.bbox.x0 : w \in rowWords} \cup {currentVoterWord.bbox.x0})
        maxX == SetMax({w.bbox.x1 : w \in rowWords} \cup {currentVoterWord.bbox.x1})
        bottom0 == IF nextVoterWord # <<>>
                   THEN Min2(nextVoterWord[1].bbox.y0 - blockMargin, currentY + blockHeight)
                   ELSE Min2(currentY + blockHeight, imageHeight)
        blockWords == {w \in Range(allWords) :
                          /\ w.bbox.y0 >= currentY - blockMargin
                          /\ w.bbox.y0 <= bottom0}
        bottomY == IF blockWords # {}
                   THEN Min2(SetMax({w.bbox.y1 : w \in blockWords}) + blockMargin, bottom0)
                   ELSE bottom0
    IN  [x |-> Max2(0, minX - blockMargin),
         y |-> Max2(0, currentY - blockMargin),
         width |-> (maxX - minX) + 2 * blockMargin,
         height |-> (bottomY - currentY) + blockMargin]

\* findVoterBlockBoundaries(data): one block per unique candidate, the next
\* candidate of the list bounding it from below.
findVoterBlockBoundaries(d) ==
    LET unique == uniqueVoterIds(SortByConfidence(voterIdCandidates(d.words)))
        Block(i) ==
            [voterId |-> unique[i].voterId,
             blockIndex |-> i - 1,
             boundary |-> calculateBlockBoundary(
                              unique[i].word,
                              IF i < Len(unique) THEN <<unique[i + 1].word>> ELSE <<>>,
                              d.words, d.height),
             referenceWord |-> unique[i].word,
             confidence |-> unique[i].confidence]
    IN  [i \in 1 .. Len(unique) |-> Block(i)]

(***************************************************************************)
(* Structural strategy: detectBlocksByVisualStructure.                     *)
(***************************************************************************)
spaceThreshold == 40
structuralConfidence == 75

RECURSIVE Decimal(_)
\* The decimal digits of n >= 0, as template literals print a number.
Decimal(n) ==
    LET digits == <<"0","1","2","3","4","5","6","7","8","9">>
    IN  IF n < 10 THEN <<digits[n + 1]>>
        ELSE Decimal(n \div 10) \o <<digits[(n % 10) + 1]>>

\* lines.map(l => l.text).join(' ')
RECURSIVE JoinTexts(_)
JoinTexts(lines) ==
    IF lines = <<>> THEN <<>>
    ELSE IF Len(lines) = 1 THEN lines[1].text
    ELSE lines[1].text \o <<" ">> \o JoinTexts(Tail(lines))

\* Length of the match of [A-Z]{minL,maxL}\d{minD,maxD} that starts at i
\* (greedy quantifiers, with backtracking), 0 when there is none.
MatchLenAt(s, i, minL, maxL, minD, maxD) ==
    LET fits == {ld \in (minL .. maxL) \X (minD .. maxD) :
                    /\ RunOf(s, i, ld[1], IsUpper)
                    /\ RunOf(s, i + ld[1], ld[2], IsDigit)}
        l == SetMax({ld[1] : ld \in fits})
        d == SetMax({ld[2] : ld \in {f \in fits : f[1] = l}})
    IN  IF fits = {} THEN 0 ELSE l + d

\* text.match(/[A-Z]{3}\d{7}|[A-Z]{2,4}\d{6,8}/): <<>> (null) or <<match[0]>>,
\* the leftmost match, the first alternative preferred at that place.
voterIdMatch(s) ==
    LET LenAt(i) == IF MatchLenAt(s, i, 3, 3, 7, 7) > 0
                    THEN MatchLenAt(s, i, 3, 3, 7, 7)
                    ELSE MatchLenAt(s, i, 2, 4, 6, 8)
        starts == {i \in 1 .. Len(s) : LenAt(i) > 0}
        i0 == SetMin(starts)
    IN  IF starts = {} THEN <<>> ELSE <<SubSeq(s, i0, i0 + LenAt(i0) - 1)>>

\* A line continues the current group when its gap to the group is below
\* the threshold.
SameGroup(gap) == gap < spaceThreshold

NewGroup(line) ==
    [lines |-> <<line>>, minY |-> line.bbox.y0, maxY |-> line.bbox.y1,
     minX |-> line.bbox.x0, maxX |-> line.bbox.x1]

RECURSIVE GroupLines(_)
\* The grouping loop: the groups after all of lines, the last one being the
\* current group.
GroupLines(lines) ==
    IF lines = <<>> THEN <<>>
    ELSE IF Len(lines) = 1 THEN <<NewGroup(lines[1])>>
    ELSE LET before == GroupLines(SubSeq(lines, 1, Len(lines) - 1))
             line == lines[Len(lines)]
             cur == before[Len(before)]
             gap == line.bbox.y0 - cur.maxY
         IN  IF SameGroup(gap)
             THEN [before EXCEPT ![Len(before)] =
                     [lines |-> Append(cur.lines, line),
                      minY |-> cur.minY,
                      maxY |-> Max2(cur.maxY, line.bbox.y1),
                      minX |-> Min2(cur.minX, line.bbox.x0),
                      maxX |-> Max2(cur.maxX, line.bbox.x1)]]
             ELSE Append(before, NewGroup(line))

detectBlocksByVisualStructure(d) ==
    LET groups == GroupLines(d.lines)
        Block(i) ==
            LET m == voterIdMatch(JoinTexts(groups[i].lines))
            IN  [voterId |-> IF m # <<>> THEN m[1]
                             ELSE <<"B","L","O","C","K","_">> \o Decimal(i),
                 blockIndex |-> i - 1,
                 boundary |-> [x |-> groups[i].minX, y |-> groups[i].minY,
                               width |-> groups[i].maxX - groups[i].minX,
                               height |-> groups[i].maxY - groups[i].minY],
                 referenceWord |-> [bbox |-> [y0 |-> groups[i].minY,
                                              x0 |-> groups[i].minX]],
                 confidence |-> 20 * structuralConfidence]
    IN  [i \in 1 .. Len(groups) |-> Block(i)]

(***************************************************************************)
(* Grid strategy: detectBlocksByGrid.                                      *)
(***************************************************************************)
cols == 3
rowHeight == 200
gridConfidence == 70

\* Math.floor(width * 0.02)
MarginTwoPercent(width) == (2 * width) \div 100
\* No margin at all.
MarginNone(width) == 0
gridMargin(width) == MarginTwoPercent(width)
colWidth(width) == (width - 4 * gridMargin(width)) \div cols
\* Math.floor((height - margin * 2) / rowHeight)
RowsFloor(width, height) == (height - 2 * gridMargin(width)) \div rowHeight
\* One row short of it.
RowsFloorLessOne(width, height) == RowsFloor(width, height) - 1
gridRows(width, height) == RowsFloor(width, height)

detectBlocksByGrid(width, height) ==
    LET margin == gridMargin(width)
        rows == gridRows(width, height)
        CellX(k) == margin + (k % cols) * (colWidth(width) + margin)
        CellY(k) == margin + (k \div cols) * rowHeight
        \* the cells the loop pushes, in row-major order
        kept == SelectSeq([j \in 1 .. (IF rows > 0 THEN rows * cols ELSE 0) |-> j - 1],
                          LAMBDA k : ~(CellY(k) + rowHeight > height))
        Block(i) ==
            [voterId |-> <<"G","R","I","D","_">> \o Decimal(i),
             blockIndex |-> i - 1,
             boundary |-> [x |-> CellX(kept[i]), y |-> CellY(kept[i]),
                           width |-> colWidth(width), height |-> rowHeight],
             referenceWord |-> [bbox |-> [y0 |-> CellY(kept[i]), x0 |-> CellX(kept[i])]],
             confidence |-> 20 * gridConfidence]
    IN  [i \in 1 .. Len(kept) |-> Block(i)]

(***************************************************************************)
(* Inputs: what the recognition collaborator may return for a page.        *)
(***************************************************************************)
IdText      == <<"A","B","C","1","2","3","4","5","6","7">>
IdTextNoisy == <<"a","b","c","-","1","2","3","4","5","6","7">>
IdTextLong  == <<"X","A","B","C","1","2","3","4","5","6","7","8">>
RelaxedText == <<"A","B","1","2","3","4","5","6">>
LettersText == <<"A","B","C">>
DigitsText  == <<"1","2","3","4","5","6","7">>
OdiaText    == <<"U+0B28","U+0B3E","U+0B2E">>

WordTexts == {IdText, IdTextNoisy, IdTextLong, RelaxedText,
              LettersText, DigitsText, OdiaText}
ConfLevels == {50, 90}

\* The page of the anchor detector's inputs and the places of its words.
AnchorPage == [width |-> 600, height |-> 800]
WordBoxes == {[x0 |-> 0,   y0 |-> 5,   x1 |-> 100, y1 |-> 25],
              [x0 |-> 200, y0 |-> 100, x1 |-> 300, y1 |-> 120],
              [x0 |-> 200, y0 |-> 150, x1 |-> 300, y1 |-> 170]}

WordsOf(texts, confs, boxes) ==
    {[text |-> t, confidence |-> c, bbox |-> b] :
        t \in texts, c \in confs, b \in boxes}

\* Sequences of at most n of the items, no two at the same place.
SeqsApart(items, n) ==
    UNION {{s \in [1 .. k -> items] :
               \A i, j \in 1 .. k : i # j => s[i].bbox # s[j].bbox} : k \in 0 .. n}

AnchorInputs ==
    {[words |-> ws, lines |-> <<>>, height |-> AnchorPage.height] :
        ws \in SeqsApart(WordsOf(WordTexts, ConfLevels, WordBoxes), MaxWords)}

\* The pages, words and lines of the orchestrator's inputs.
PageSizes == {[width |-> 2,   height |-> 250],
              [width |-> 100, height |-> 203],
              [width |-> 100, height |-> 204],
              [width |-> 600, height |-> 1],
              [width |-> 600, height |-> 450],
              [width |-> 600, height |-> 800]}
DetectWordBoxes == {[x0 |-> 200, y0 |-> 100, x1 |-> 300, y1 |-> 120],
                    [x0 |-> 500, y0 |-> 100, x1 |-> 600, y1 |-> 120]}
LineBoxes == {[x0 |-> 20, y0 |-> 10, x1 |-> 80, y1 |-> 30],
              [x0 |-> 20, y0 |-> 69, x1 |-> 90, y1 |-> 89],
              [x0 |-> 10, y0 |-> 70, x1 |-> 80, y1 |-> 90]}
LineTexts == {OdiaText, RelaxedText}
LinesOf(texts, boxes) == {[text |-> t, bbox |-> b] : t \in texts, b \in boxes}

InPage(bbox, w, h) ==
    /\ 0 <= bbox.x0 /\ bbox.x0 < bbox.x1 /\ bbox.x1 <= w
    /\ 0 <= bbox.y0 /\ bbox.y0 < bbox.y1 /\ bbox.y1 <= h

\* recognize(image) -> {words, lines}, everything inside the w x h page.
RecognitionResults(w, h) ==
    {[words |-> ws, lines |-> ls, height |-> h] :
        ws \in SeqsApart({x \in WordsOf({IdText, OdiaText}, {90}, DetectWordBoxes) :
                             InPage(x.bbox, w, h)}, MaxDetectWords),
        ls \in SeqsApart({l \in LinesOf(LineTexts, LineBoxes) :
                             InPage(l.bbox, w, h)}, MaxLines)}

NoData == [words |-> <<>>, lines |-> <<>>, height |-> 0]

\* The page image as preprocessImageForOdia names it.
PathSuffixes == {"_processed.png", "_debug.png", ".png"}
ImagePaths == {[stem |-> "page.1", suffix |-> x] : x \in PathSuffixes}
\* imagePath.replace('_processed.png', '.png').replace('_debug.png', '.png')
originalPath(path) ==
    IF path.suffix \in {"_processed.png", "_debug.png"}
    THEN [path EXCEPT !.suffix = ".png"]
    ELSE path

(***************************************************************************)
(* The anchor strategy alone: findVoterBlockBoundaries on its inputs.      *)
(***************************************************************************)
ExtractIdle ==
    /\ kvPc = "idle" /\ kvFields = <<>> /\ kvText = <<>>
    /\ kvResult = <<>> /\ kvCanonical = <<>>
ValidateIdle == vPc = "idle" /\ vVoter = <<>> /\ vResult = FALSE
ParseIdle ==
    /\ prPc = "idle" /\ prPageNo = 0 /\ prBlocksLeft = 0 /\ prChunks = <<>>
    /\ prItem = 0 /\ prStart = 0 /\ prPageVoters = <<>> /\ voters = <<>>
    /\ globalSerialNo = 0 /\ prParsed = 0 /\ prChecked = <<>>
    /\ prCandidate = <<>>
RollIdle ==
    /\ rlPc = "idle" /\ ocrResults = <<>> /\ rollParts = <<>>
    /\ rollStats = <<>> /\ rollVoters = <<>> /\ rlConsidered = 0
\* The processor as constructed: no handle, no run.
WorkerIdle ==
    /\ worker = 0 /\ blockDetector = 0
    /\ workerCreated = 0 /\ detectorCreated = 0
    /\ wPc = [r \in 1 .. MaxRuns |-> "off"]
    /\ wPage = [r \in 1 .. MaxRuns |-> 0]
    /\ wHandle = [r \in 1 .. MaxRuns |-> 0]
    /\ wInitFailed = [r \in 1 .. MaxRuns |-> FALSE]
    /\ wHalfReturn = FALSE /\ wNullUse = FALSE
AgeIdle == agPc = "idle" /\ agText = <<>> /\ agResult = 0
RecordIdle ==
    ExtractIdle /\ ValidateIdle /\ ParseIdle /\ RollIdle /\ WorkerIdle /\ AgeIdle
AnchorIdle == fvPc = "idle" /\ fvData = NoData /\ fvBlocks = <<>>
DetectIdle ==
    /\ pc = "idle" /\ imagePath = [stem |-> "page.1", suffix |-> ".png"]
    /\ pageW = 0 /\ pageH = 0 /\ data = NoData /\ voterBlocks = <<>>
    /\ anchorOut = <<>> /\ structOut = <<>> /\ gridOut = <<>>
    /\ recognized = <<>> /\ entered = <<>>
PageIdle ==
    /\ runStatus = "idle" /\ raisedBy = "none" /\ nPages = 0 /\ pageNo = 0
    /\ pagePc = "idle" /\ pageBlocks = <<>> /\ cropIdx = 0
    /\ croppedBlocks = <<>> /\ cropFailed = {} /\ procIdx = 0
    /\ processedBlocks = <<>> /\ recogFailed = {} /\ results = <<>>

(***************************************************************************)
(* The translation cache: Translator of src/unnamed/part_001.              *)
(***************************************************************************)
minRequestInterval == 300

\* The static table of romanizeOdia: <<glyph, Latin letters>>.
romanizeMap ==
    {<<"U+0B15", <<"k", "a">>>>, <<"U+0B16", <<"k", "h", "a">>>>, <<"U+0B17", <<"g", "a">>>>,
     <<"U+0B18", <<"g", "h", "a">>>>, <<"U+0B19", <<"n", "g", "a">>>>, <<"U+0B1A", <<"c", "h", "a">>>>,
     <<"U+0B1B", <<"c", "h", "h", "a">>>>, <<"U+0B1C", <<"j", "a">>>>, <<"U+0B1D", <<"j", "h", "a">>>>,
     <<"U+0B1E", <<"n", "y", "a">>>>, <<"U+0B1F", <<"t", "a">>>>, <<"U+0B20", <<"t", "h", "a">>>>,
     <<"U+0B21", <<"d", "a">>>>, <<"U+0B22", <<"d", "h", "a">>>>, <<"U+0B23", <<"n", "a">>>>,
     <<"U+0B24", <<"t", "a">>>>, <<"U+0B25", <<"t", "h", "a">>>>, <<"U+0B26", <<"d", "a">>>>,
     <<"U+0B27", <<"d", "h", "a">>>>, <<"U+0B28", <<"n", "a">>>>, <<"U+0B2A", <<"p", "a">>>>,
     <<"U+0B2B", <<"p", "h", "a">>>>, <<"U+0B2C", <<"b", "a">>>>, <<"U+0B2D", <<"b", "h", "a">>>>,
     <<"U+0B2E", <<"m", "a">>>>, <<"U+0B2F", <<"y", "a">>>>, <<"U+0B30", <<"r", "a">>>>,
     <<"U+0B32", <<"l", "a">>>>, <<"U+0B33", <<"l", "a">>>>, <<"U+0B36", <<"s", "h", "a">>>>,
     <<"U+0B37", <<"s", "h", "a">>>>, <<"U+0B38", <<"s", "a">>>>, <<"U+0B39", <<"h", "a">>>>,
     <<"U+0B3E", <<"a">>>>, <<"U+0B3F", <<"i">>>>, <<"U+0B40", <<"i">>>>,
     <<"U+0B41", <<"u">>>>, <<"U+0B42", <<"u">>>>, <<"U+0B47", <<"e">>>>,
     <<"U+0B48", <<"a", "i">>>>, <<"U+0B4B", <<"o">>>>, <<"U+0B4C", <<"a", "u">>>>,
     <<"U+0B02", <<"m">>>>, <<"U+0B03", <<"h">>>>, <<"U+0B4D", <<>>>>,
     <<"U+0B05", <<"a">>>>, <<"U+0B06", <<"a">>>>, <<"U+0B07", <<"i">>>>,
     <<"U+0B08", <<"i">>>>, <<"U+0B09", <<"u">>>>, <<"U+0B0A", <<"u">>>>,
     <<"U+0B0F", <<"e">>>>, <<"U+0B10", <<"a", "i">>>>, <<"U+0B13", <<"o">>>>,
     <<"U+0B14", <<"a", "u">>>>}
\* The code points of the Odia block that the model's texts may hold.
OdiaChars == {e[1] : e \in romanizeMap} \cup {"U+0B5F", "U+0B71"}

IsOdiaChar(c) == c \in OdiaChars
IsWordChar(c) == IsUpper(c) \/ IsLower(c) \/ IsDigit(c) \/ c = "_"

\* /[\u0B00-\u0B7F]/.test(text)
isOdiaText(text) == \E i \in DOMAIN text : IsOdiaChar(text[i])

\* String.prototype.trim
Trim(s) ==
    LET solid == {i \in DOMAIN s : ~IsSpace(s[i])}
    IN  IF solid = {} THEN <<>> ELSE SubSeq(s, SetMin(solid), SetMax(solid))
\* s.replace(/\s+/g, ' '): every run of white space becomes one blank.
CollapseSpaces(s) ==
    LET Piece(i) == IF ~IsSpace(s[i]) THEN <<s[i]>>
                    ELSE IF i > 1 /\ IsSpace(s[i - 1]) THEN <<>> ELSE <<" ">>
    IN  FlatMapIdx(Piece, 1, Len(s))
\* s.replace(/[^\w\s\u0B00-\u0B7F-]/g, '')
StripPunctuation(s) ==
    SelectSeq(s, LAMBDA c : IsWordChar(c) \/ IsSpace(c) \/ IsOdiaChar(c) \/ c = "-")

normalizeText(text) == StripPunctuation(CollapseSpaces(Trim(text)))

\* map[char] || char: an empty entry of the table leaves the glyph as it is.
RomanizeChar(c) ==
    IF \E e \in romanizeMap : e[1] = c /\ e[2] # <<>>
    THEN (CHOOSE e \in romanizeMap : e[1] = c)[2]
    ELSE <<c>>

\* capitalizeWords: lower case, then the first letter of every word (the
\* text split at single blanks) in upper case.
ToLowerChar(c) ==
    IF IsUpper(c) THEN LowerSeq[CHOOSE i \in DOMAIN UpperSeq : UpperSeq[i] = c]
    ELSE c
capitalizeWords(text) ==
    [i \in DOMAIN text |->
        IF i = 1 \/ text[i - 1] = " "
        THEN ToUpperChar(ToLowerChar(text[i]))
        ELSE ToLowerChar(text[i])]

romanizeOdia(text) ==
    capitalizeWords(FlatMapIdx(LAMBDA i : RomanizeChar(text[i]), 1, Len(text)))

\* The texts handed to translateToEnglish, and what the external
\* translation may answer.
NameText == <<"U+0B28", "U+0B3E", "U+0B2E">>
AgeText  == <<"U+0B2C", "U+0B5F", "U+0B38">>
TranslateTexts ==
    {NameText,
     NameText \o <<"!">>,
     <<" ">> \o NameText,
     AgeText,
     <<"U+0B28", "U+0B3E">>,
     <<"a", "b", "c", ".">>,
     <<" ">>}
Translations == {<<"n", "a", "m", "e">>, <<"N", "a", "m">>}
Callers == {1, 2}
CacheKeys == {normalizeText(t) : t \in TranslateTexts}

\* this.cache.has(normalizedText)
IsCached(c, key) == key \in DOMAIN c
\* A store that forgets every other entry.
CacheSetAlone(c, key, value) == [k \in {key} |-> value]
\* this.cache.set(normalizedText, result)
CacheSet(c, key, value) ==
    [k \in DOMAIN c \cup {key} |-> IF k = key THEN value ELSE c[k]]
\* The result returned without being stored.
CacheKeep(c, key, value) == c
CacheAfterSuccess(c, key, value) == CacheSet(c, key, value)
\* The catch of translateToEnglish does not touch the cache.
CacheStoreDegraded(c, key, value) == CacheSet(c, key, value)
CacheAfterFailure(c, key, value) == c

\* The cache file of saveCache / loadCache, and a call of either that is
\* awaiting the file system.
NoFile == [exists |-> FALSE, entries |-> <<>>]
FileOf(c) == [exists |-> TRUE, entries |-> c]
NotPending == [busy |-> FALSE, entries |-> <<>>]
PendingOf(c) == [busy |-> TRUE, entries |-> c]

TransIdle ==
    /\ cache = <<>> /\ lastRequestTime = 0 /\ now = 0
    /\ tPc = [c \in Callers |-> "off"]
    /\ tText = [c \in Callers |-> <<>>] /\ tNorm = [c \in Callers |-> <<>>]
    /\ tWake = [c \in Callers |-> 0] /\ tRet = [c \in Callers |-> <<>>]
    /\ callsFor = [k \in CacheKeys |-> 0]
    /\ extCalls = [k \in CacheKeys |-> 0]
    /\ extFailures = [k \in CacheKeys |-> 0]
    /\ overlapped = FALSE /\ lastIssueAt = -1 /\ spacingBroken = FALSE
    /\ cacheFile = NoFile /\ savePending = NotPending
    /\ loadPending = NotPending /\ cacheOps = 0

InitAnchor ==
    /\ fvPc = "call" /\ fvData \in AnchorInputs /\ fvBlocks = <<>>
    /\ DetectIdle /\ PageIdle /\ TransIdle /\ RecordIdle

FindVoterBlockBoundaries ==
    /\ fvPc = "call"
    /\ fvBlocks' = findVoterBlockBoundaries(fvData)
    /\ fvPc' = "returned"
    /\ UNCHANGED <<fvData, detectVars, pageVars, transVars, recordVars>>

NextAnchor == FindVoterBlockBoundaries
SpecAnchor == InitAnchor /\ [][NextAnchor]_vars

(***************************************************************************)
(* The orchestrator: detectVoterBlocks, one action per awaited step.       *)
(***************************************************************************)
\* (data.words?.length || 0) === 0 and the alternate image is another file
NeedsRetryNoWords(d, path) == Len(d.words) = 0
NeedsRetry(d, path) == Len(d.words) = 0 /\ originalPath(path) # path
\* voterBlocks.length === 0 && data.lines?.length > 0
EntersStructural(blocks, d) == Len(blocks) = 0 /\ Len(d.lines) > 0
\* voterBlocks.length === 0
EntersGridWhenEmpty(blocks) == Len(blocks) = 0
\* The test left out: Grid runs after every page.
EntersGridAlways(blocks) == TRUE
EntersGrid(blocks) == EntersGridWhenEmpty(blocks)

InitDetect ==
    /\ pc = "recognize"
    /\ imagePath \in ImagePaths
    /\ \E p \in PageSizes : pageW = p.width /\ pageH = p.height
    /\ data = NoData /\ voterBlocks = <<>>
    /\ anchorOut = <<>> /\ structOut = <<>> /\ gridOut = <<>>
    /\ recognized = <<>> /\ entered = <<>>
    /\ AnchorIdle /\ PageIdle /\ TransIdle /\ RecordIdle

\* blockDetector.recognize(imagePath)
Recognize ==
    /\ pc = "recognize"
    /\ \E d \in RecognitionResults(pageW, pageH) :
          /\ data' = d
          /\ pc' = IF NeedsRetry(d, imagePath) THEN "retry" ELSE "anchor"
    /\ recognized' = Append(recognized, imagePath)
    /\ UNCHANGED <<imagePath, pageW, pageH, voterBlocks,
                   anchorOut, structOut, gridOut, entered, anchorVars,
                   pageVars, transVars, recordVars>>

\* blockDetector.recognize(originalPath)
RetryRecognize ==
    /\ pc = "retry"
    /\ \E d \in RecognitionResults(pageW, pageH) : data' = d
    /\ pc' = "anchor"
    /\ recognized' = Append(recognized, originalPath(imagePath))
    /\ UNCHANGED <<imagePath, pageW, pageH, voterBlocks,
                   anchorOut, structOut, gridOut, entered, anchorVars,
                   pageVars, transVars, recordVars>>

\* State Anchor: findVoterBlockBoundaries(data), then the two tests.
AnchorState ==
    /\ pc = "anchor"
    /\ LET blocks == findVoterBlockBoundaries(data)
       IN  /\ voterBlocks' = blocks
           /\ anchorOut' = blocks
           /\ pc' = IF EntersStructural(blocks, data) THEN "structural"
                    ELSE IF EntersGrid(blocks) THEN "grid" ELSE "done"
    /\ entered' = Append(entered, "Anchor")
    /\ UNCHANGED <<imagePath, pageW, pageH, data, structOut, gridOut,
                   recognized, anchorVars,
                   pageVars, transVars, recordVars>>

\* State Structural: detectBlocksByVisualStructure(imagePath, data).
StructuralState ==
    /\ pc = "structural"
    /\ LET blocks == detectBlocksByVisualStructure(data)
       IN  /\ voterBlocks' = blocks
           /\ structOut' = blocks
           /\ pc' = IF EntersGrid(blocks) THEN "grid" ELSE "done"
    /\ entered' = Append(entered, "Structural")
    /\ UNCHANGED <<imagePath, pageW, pageH, data, anchorOut, gridOut,
                   recognized, anchorVars,
                   pageVars, transVars, recordVars>>

\* State Grid: detectBlocksByGrid(imagePath), on the image's metadata.
GridState ==
    /\ pc = "grid"
    /\ LET blocks == detectBlocksByGrid(pageW, pageH)
       IN  /\ voterBlocks' = blocks
           /\ gridOut' = blocks
    /\ pc' = "done"
    /\ entered' = Append(entered, "Grid")
    /\ UNCHANGED <<imagePath, pageW, pageH, data, anchorOut, structOut,
                   recognized, anchorVars,
                   pageVars, transVars, recordVars>>

NextDetect ==
    \/ Recognize
    \/ RetryRecognize
    \/ AnchorState
    \/ StructuralState
    \/ GridState
SpecDetect == InitDetect /\ [][NextDetect]_vars

(***************************************************************************)
(* The page pipeline: processPdf, processPageWithBlocks, cropVoterBlocks   *)
(* and processVoterBlock, one action per awaited step.  A block is         *)
(* [blockIndex, area]: area tells whether sharp can extract its boundary.  *)
(***************************************************************************)
BlockLists ==
    UNION {{[i \in 1 .. n |-> [blockIndex |-> i - 1, area |-> a[i]]] :
               a \in [1 .. n -> {"ok", "bad"}]} : n \in 0 .. MaxBlocks}

\* What one pass of the cropping loop leaves in croppedPaths: the block is
\* pushed when the crop succeeded, and the catch only logs.
CroppedKeepRest(cropped, block, ok) ==
    IF ok THEN Append(cropped, block) ELSE cropped
\* A catch that gives up on the page's earlier crops.
CroppedDropAll(cropped, block, ok) ==
    IF ok THEN Append(cropped, block) ELSE <<>>
CroppedAfter(cropped, block, ok) == CroppedKeepRest(cropped, block, ok)

\* The run after one pass of the cropping loop: the catch swallows the
\* failure, so the run goes on either way.
StatusAfterCrop(ok) == "running"

\* The outcomes sharp can have on a block: extract throws on a bad area,
\* toFile may fail on any.
CropOutcomes(block) == IF block.area = "ok" THEN {TRUE, FALSE} ELSE {FALSE}

Raise(by) == runStatus' = "raised" /\ raisedBy' = by

\* The for loop of processPdf moves on to the next page or to the summary.
AdvancePage ==
    /\ pageNo' = pageNo + 1
    /\ pagePc' = IF pageNo < nPages THEN "detect" ELSE "summary"

InitPage ==
    /\ runStatus = "running" /\ raisedBy = "none"
    /\ nPages \in 0 .. MaxPages
    /\ pageNo = 1
    /\ pagePc = IF nPages = 0 THEN "summary" ELSE "detect"
    /\ pageBlocks = <<>> /\ cropIdx = 0 /\ croppedBlocks = <<>>
    /\ cropFailed = {} /\ procIdx = 0 /\ processedBlocks = <<>>
    /\ recogFailed = {} /\ results = <<>>
    /\ AnchorIdle /\ DetectIdle /\ TransIdle /\ RecordIdle

\* processPageWithBlocks: detectVoterBlocks(imagePath) returns the page's
\* blocks; an empty list ends the page at once.
DetectPage ==
    /\ runStatus = "running" /\ pagePc = "detect"
    /\ \E blocks \in BlockLists :
          /\ pageBlocks' = blocks
          /\ IF blocks = <<>>
             THEN /\ results' = Append(results,
                        [pageNumber |-> pageNo, blocks |-> <<>>, totals |-> FALSE])
                  /\ AdvancePage
             ELSE /\ pagePc' = "mkdir"
                  /\ UNCHANGED <<results, pageNo>>
    /\ cropIdx' = 0 /\ croppedBlocks' = <<>> /\ cropFailed' = {}
    /\ procIdx' = 0 /\ processedBlocks' = <<>>
    /\ UNCHANGED <<runStatus, raisedBy, nPages, recogFailed,
                   anchorVars, detectVars, recordVars,
                   transVars>>

\* detectVoterBlocks raises (a worker cannot be made, recognize throws).
DetectPageRaises ==
    /\ runStatus = "running" /\ pagePc = "detect"
    /\ Raise("detect")
    /\ UNCHANGED <<nPages, pageNo, pagePc, pageBlocks, cropIdx, croppedBlocks,
                   cropFailed, procIdx, processedBlocks, recogFailed, results,
                   anchorVars, detectVars, recordVars,
                   transVars>>

\* cropVoterBlocks: fs.mkdir(outputDir), outside the loop's try.
MakeBlocksDir ==
    /\ runStatus = "running" /\ pagePc = "mkdir"
    /\ \/ pagePc' = "crop" /\ UNCHANGED <<runStatus, raisedBy>>
       \/ Raise("mkdir") /\ UNCHANGED pagePc
    /\ UNCHANGED <<nPages, pageNo, pageBlocks, cropIdx, croppedBlocks,
                   cropFailed, procIdx, processedBlocks, recogFailed, results,
                   anchorVars, detectVars, recordVars,
                   transVars>>

\* cropVoterBlocks: one pass of the loop, try { extract ... toFile } catch.
CropBlock ==
    /\ runStatus = "running" /\ pagePc = "crop"
    /\ cropIdx < Len(pageBlocks)
    /\ LET block == pageBlocks[cropIdx + 1]
       IN  \E ok \in CropOutcomes(block) :
              /\ croppedBlocks' = CroppedAfter(croppedBlocks, block, ok)
              /\ cropFailed' = IF ok THEN cropFailed
                               ELSE cropFailed \cup {block.blockIndex}
              /\ runStatus' = StatusAfterCrop(ok)
              /\ raisedBy' = IF StatusAfterCrop(ok) = "raised" THEN "crop"
                             ELSE raisedBy
    /\ cropIdx' = cropIdx + 1
    /\ pagePc' = IF cropIdx + 1 = Len(pageBlocks) THEN "recognize" ELSE "crop"
    /\ UNCHANGED <<nPages, pageNo, pageBlocks, procIdx,
                   processedBlocks, recogFailed, results, anchorVars, detectVars, recordVars,
                   transVars>>

\* processPageWithBlocks: one pass of its loop, processVoterBlock(block)
\* with worker.recognize succeeding.
ProcessBlock ==
    /\ runStatus = "running" /\ pagePc = "recognize"
    /\ procIdx < Len(croppedBlocks)
    /\ processedBlocks' = Append(processedBlocks, croppedBlocks[procIdx + 1])
    /\ procIdx' = procIdx + 1
    /\ UNCHANGED <<runStatus, raisedBy, nPages, pageNo, pagePc, pageBlocks,
                   cropIdx, croppedBlocks, cropFailed, recogFailed, results,
                   anchorVars, detectVars, recordVars,
                   transVars>>

\* worker.recognize raises: nothing between processVoterBlock and the catch
\* of processPdf handles it, and processPdf throws it on.
ProcessBlockRaises ==
    /\ runStatus = "running" /\ pagePc = "recognize"
    /\ procIdx < Len(croppedBlocks)
    /\ recogFailed' = recogFailed \cup
                        {<<pageNo, croppedBlocks[procIdx + 1].blockIndex>>}
    /\ Raise("recognize")
    /\ UNCHANGED <<nPages, pageNo, pagePc, pageBlocks, cropIdx, croppedBlocks,
                   cropFailed, procIdx, processedBlocks, results,
                   anchorVars, detectVars, recordVars,
                   transVars>>

\* processPageWithBlocks returns the page's result; processPdf pushes it.
FinishPage ==
    /\ runStatus = "running" /\ pagePc = "recognize"
    /\ procIdx = Len(croppedBlocks)
    /\ results' = Append(results,
           [pageNumber |-> pageNo, blocks |-> processedBlocks, totals |-> TRUE])
    /\ AdvancePage
    /\ UNCHANGED <<runStatus, raisedBy, nPages, pageBlocks, cropIdx,
                   croppedBlocks, cropFailed, procIdx, processedBlocks,
                   recogFailed, anchorVars, detectVars, recordVars,
                   transVars>>

\* processPdf: the summary and fs.writeFile of the results.
WriteResults ==
    /\ runStatus = "running" /\ pagePc = "summary"
    /\ \/ runStatus' = "returned" /\ UNCHANGED raisedBy
       \/ Raise("writeFile")
    /\ pagePc' = "done"
    /\ UNCHANGED <<nPages, pageNo, pageBlocks, cropIdx, croppedBlocks,
                   cropFailed, procIdx, processedBlocks, recogFailed, results,
                   anchorVars, detectVars, recordVars,
                   transVars>>

NextPage ==
    \/ DetectPage
    \/ DetectPageRaises
    \/ MakeBlocksDir
    \/ CropBlock
    \/ ProcessBlock
    \/ ProcessBlockRaises
    \/ FinishPage
    \/ WriteResults
SpecPage == InitPage /\ [][NextPage]_vars

(***************************************************************************)
(* translateToEnglish as called by two concurrent lookups, one action per  *)
(* awaited step; the clock advances in steps of 100 ms.                    *)
(***************************************************************************)
RECURSIVE SumOver(_, _)
SumOver(f, S) ==
    IF S = {} THEN 0
    ELSE LET k == CHOOSE x \in S : TRUE IN f[k] + SumOver(f, S \ {k})

InitTranslate ==
    /\ cache = <<>> /\ lastRequestTime = 0
    /\ now = 1000
    /\ tPc = [c \in Callers |-> "idle"]
    /\ tText = [c \in Callers |-> <<>>] /\ tNorm = [c \in Callers |-> <<>>]
    /\ tWake = [c \in Callers |-> 0] /\ tRet = [c \in Callers |-> <<>>]
    /\ callsFor = [k \in CacheKeys |-> 0]
    /\ extCalls = [k \in CacheKeys |-> 0]
    /\ extFailures = [k \in CacheKeys |-> 0]
    /\ overlapped = FALSE /\ lastIssueAt = -1 /\ spacingBroken = FALSE
    /\ cacheFile = NoFile /\ savePending = NotPending
    /\ loadPending = NotPending /\ cacheOps = 0
    /\ AnchorIdle /\ DetectIdle /\ PageIdle /\ RecordIdle

\* translate(normalizedText, {from: 'or', to: 'en'}) is called: the
\* external call starts.
IssueExternal(c, key) ==
    /\ tPc' = [tPc EXCEPT ![c] = "translate"]
    /\ extCalls' = [extCalls EXCEPT ![key] = @ + 1]
    /\ spacingBroken' = (spacingBroken \/
                           (lastIssueAt >= 0 /\ now - lastIssueAt < minRequestInterval))
    /\ lastIssueAt' = now

Return(c, value) ==
    /\ tRet' = [tRet EXCEPT ![c] = value]
    /\ tPc' = [tPc EXCEPT ![c] = "idle"]

\* A lookup begins: translateToEnglish(text) runs up to its first await,
\* the import of the translation module.
CallTranslateOf(c, texts) ==
    /\ tPc[c] = "idle"
    /\ SumOver(callsFor, CacheKeys) < MaxCalls
    /\ \E text \in texts :
          /\ tText' = [tText EXCEPT ![c] = text]
          /\ callsFor' = [callsFor EXCEPT ![normalizeText(text)] = @ + 1]
    /\ tPc' = [tPc EXCEPT ![c] = "import"]
    /\ overlapped' = (overlapped \/ \E d \in Callers \ {c} : tPc[d] # "idle")
    /\ UNCHANGED <<cache, lastRequestTime, now, tNorm, tWake, tRet, extCalls,
                   extFailures, lastIssueAt, spacingBroken,
                   cacheOpVars,
                   anchorVars, detectVars, recordVars,
                   pageVars>>

CallTranslate(c) == CallTranslateOf(c, TranslateTexts)

\* From the import to the next await: the empty text, the cache, the script
\* and length tests, and either the delay or the external call.
LookUp(c) ==
    /\ tPc[c] = "import"
    /\ LET text == tText[c]
           normalizedText == normalizeText(text)
           timeSinceLastRequest == now - lastRequestTime
       IN  /\ tNorm' = [tNorm EXCEPT ![c] = normalizedText]
           /\ IF text = <<>> \/ Trim(text) = <<>>
              THEN /\ Return(c, <<>>)
                   /\ UNCHANGED <<tWake, extCalls, lastIssueAt, spacingBroken>>
              ELSE IF IsCached(cache, normalizedText)
              THEN /\ Return(c, cache[normalizedText])
                   /\ UNCHANGED <<tWake, extCalls, lastIssueAt, spacingBroken>>
              ELSE IF ~isOdiaText(normalizedText) \/ Len(normalizedText) < 3
              THEN /\ Return(c, normalizedText)
                   /\ UNCHANGED <<tWake, extCalls, lastIssueAt, spacingBroken>>
              ELSE IF timeSinceLastRequest < minRequestInterval
              THEN /\ tPc' = [tPc EXCEPT ![c] = "delay"]
                   /\ tWake' = [tWake EXCEPT ![c] =
                                   now + (minRequestInterval - timeSinceLastRequest)]
                   /\ UNCHANGED <<tRet, extCalls, lastIssueAt, spacingBroken>>
              ELSE /\ IssueExternal(c, normalizedText)
                   /\ UNCHANGED <<tRet, tWake>>
    /\ UNCHANGED <<cache, lastRequestTime, now, tText, callsFor, extFailures,
                   overlapped, cacheOpVars,
                   anchorVars, detectVars, recordVars,
                   pageVars>>

\* The timer of delay(ms) has fired: the external call starts.
DelayDone(c) ==
    /\ tPc[c] = "delay"
    /\ now >= tWake[c]
    /\ IssueExternal(c, tNorm[c])
    /\ UNCHANGED <<cache, lastRequestTime, now, tText, tNorm, tWake, tRet,
                   callsFor, extFailures, overlapped,
                   cacheOpVars,
                   anchorVars, detectVars, recordVars,
                   pageVars>>

\* The external call answers: the clock is read, the answer cached.
TranslateOk(c) ==
    /\ tPc[c] = "translate"
    /\ \E result \in Translations :
          /\ cache' = CacheAfterSuccess(cache, tNorm[c], result)
          /\ Return(c, result)
    /\ lastRequestTime' = now
    /\ UNCHANGED <<now, tText, tNorm, tWake, callsFor, extCalls, extFailures,
                   overlapped, lastIssueAt, spacingBroken,
                   cacheOpVars,
                   anchorVars, detectVars, recordVars,
                   pageVars>>

\* The external call raises: the catch returns the transliteration.
TranslateFails(c) ==
    /\ tPc[c] = "translate"
    /\ LET fallback == romanizeOdia(tNorm[c])
       IN  /\ cache' = CacheAfterFailure(cache, tNorm[c], fallback)
           /\ Return(c, fallback)
    /\ extFailures' = [extFailures EXCEPT ![tNorm[c]] = @ + 1]
    /\ UNCHANGED <<lastRequestTime, now, tText, tNorm, tWake, callsFor,
                   extCalls, overlapped, lastIssueAt, spacingBroken,
                   cacheOpVars,
                   anchorVars, detectVars, recordVars,
                   pageVars>>

\* 100 ms pass.
Tick ==
    /\ now < 1000 + 100 * MaxTicks
    /\ now' = now + 100
    /\ UNCHANGED <<cache, lastRequestTime, tPc, tText, tNorm, tWake, tRet,
                   callsFor, extCalls, extFailures, overlapped, lastIssueAt,
                   spacingBroken, cacheOpVars,
                   anchorVars, detectVars, recordVars,
                   pageVars>>

NextTranslate ==
    \/ \E c \in Callers : CallTranslate(c)
    \/ \E c \in Callers : LookUp(c)
    \/ \E c \in Callers : DelayDone(c)
    \/ \E c \in Callers : TranslateOk(c)
    \/ \E c \in Callers : TranslateFails(c)
    \/ Tick
SpecTranslate == InitTranslate /\ [][NextTranslate]_vars

(***************************************************************************)
(* The lookups together with the explicit cache operations clearCache,     *)
(* saveCache and loadCache.                                                *)
(***************************************************************************)
translateVars == <<lastRequestTime, now, tPc, tText, tNorm, tWake, tRet,
                   callsFor, extCalls, extFailures, overlapped, lastIssueAt,
                   spacingBroken>>

\* The lookups made while the cache operations run.
CacheTexts == {NameText, AgeText}
CallTranslateCached(c) == CallTranslateOf(c, CacheTexts)

\* setTimeout of delay(ms): the clock reaches the time a delayed lookup
\* waits for.
DelayElapses ==
    /\ \E c \in Callers :
          /\ tPc[c] = "delay" /\ now < tWake[c]
          /\ now' = tWake[c]
    /\ UNCHANGED <<cache, lastRequestTime, tPc, tText, tNorm, tWake, tRet,
                   callsFor, extCalls, extFailures, overlapped, lastIssueAt,
                   spacingBroken, cacheOpVars, anchorVars, detectVars, recordVars,
                   pageVars>>

\* clearCache: this.cache.clear()
ClearCache ==
    /\ cacheOps < MaxCacheOps
    /\ cacheOps' = cacheOps + 1
    /\ cache' = <<>>
    /\ UNCHANGED <<cacheFile, savePending, loadPending, translateVars,
                   anchorVars, detectVars, recordVars,
                   pageVars>>

\* saveCache up to its await: the entries are copied, the write begins.
SaveCache ==
    /\ cacheOps < MaxCacheOps
    /\ ~savePending.busy
    /\ cacheOps' = cacheOps + 1
    /\ savePending' = PendingOf(cache)
    /\ UNCHANGED <<cache, cacheFile, loadPending, translateVars,
                   anchorVars, detectVars, recordVars,
                   pageVars>>

\* fs.writeFile resolves: the file holds the entries copied.
SaveCacheDone ==
    /\ savePending.busy
    /\ cacheFile' = FileOf(savePending.entries)
    /\ savePending' = NotPending
    /\ UNCHANGED <<cache, loadPending, cacheOps, translateVars,
                   anchorVars, detectVars, recordVars,
                   pageVars>>

\* fs.writeFile rejects: the catch logs, nothing else changes.
SaveCacheFails ==
    /\ savePending.busy
    /\ savePending' = NotPending
    /\ UNCHANGED <<cache, cacheFile, loadPending, cacheOps, translateVars,
                   anchorVars, detectVars, recordVars,
                   pageVars>>

\* loadCache up to its await: the read of the file begins.
LoadCache ==
    /\ cacheOps < MaxCacheOps
    /\ ~loadPending.busy
    /\ cacheFile.exists
    /\ cacheOps' = cacheOps + 1
    /\ loadPending' = PendingOf(cacheFile.entries)
    /\ UNCHANGED <<cache, cacheFile, savePending, translateVars,
                   anchorVars, detectVars, recordVars,
                   pageVars>>

\* fs.readFile resolves: this.cache = new Map(cacheData).
LoadCacheDone ==
    /\ loadPending.busy
    /\ cache' = loadPending.entries
    /\ loadPending' = NotPending
    /\ UNCHANGED <<cacheFile, savePending, cacheOps, translateVars,
                   anchorVars, detectVars, recordVars,
                   pageVars>>

\* loadCache without a readable file: the catch logs, the cache stays.
LoadCacheFails ==
    /\ cacheOps < MaxCacheOps
    /\ ~cacheFile.exists
    /\ cacheOps' = cacheOps + 1
    /\ UNCHANGED <<cache, cacheFile, savePending, loadPending, translateVars,
                   anchorVars, detectVars, recordVars,
                   pageVars>>

NextCache ==
    \/ \E c \in Callers : CallTranslateCached(c)
    \/ \E c \in Callers : LookUp(c)
    \/ \E c \in Callers : DelayDone(c)
    \/ \E c \in Callers : TranslateOk(c)
    \/ \E c \in Callers : TranslateFails(c)
    \/ DelayElapses
    \/ ClearCache
    \/ SaveCache
    \/ SaveCacheDone
    \/ SaveCacheFails
    \/ LoadCache
    \/ LoadCacheDone
    \/ LoadCacheFails
SpecCache == InitTranslate /\ [][NextCache]_vars

(***************************************************************************)
(* Field extraction: extractKeyValues and extractVoterData of              *)
(* src/modules/ocr.js.                                                     *)
(***************************************************************************)
\* The table of extractKeyValues: every field with its label alternatives,
\* the field's own name first.
keys ==
    <<
    [keyName |-> "name",
     alternatives |-> <<
           <<"n", "a", "m", "e">>,
           <<"U+0B28", "U+0B3E", "U+0B2E">>,
           <<"N", "a", "m", "e">>>>],
    [keyName |-> "age",
     alternatives |-> <<
           <<"a", "g", "e">>,
           <<"U+0B2C", "U+0B5F", "U+0B38">>,
           <<"A", "g", "e">>>>],
    [keyName |-> "gender",
     alternatives |-> <<
           <<"g", "e", "n", "d", "e", "r">>,
           <<"U+0B32", "U+0B3F", "U+0B17", "U+0B02">>,
           <<"U+0B32", "U+0B3F", "U+0B02", "U+0B17">>,
           <<"G", "e", "n", "d", "e", "r">>>>],
    [keyName |-> "houseNo",
     alternatives |-> <<
           <<"h", "o", "u", "s", "e", "N", "o">>,
           <<"U+0B18", "U+0B30", " ", "U+0B28", "U+0B02">>,
           <<"H", "o", "u", "s", "e", " ", "N", "o">>,
           <<"U+0B18", "U+0B30", " ", "U+0B28", "U+0B2E", "U+0B4D",
               "U+0B2C", "U+0B30">>>>],
    [keyName |-> "guardianName",
     alternatives |-> <<
           <<"g", "u", "a", "r", "d", "i", "a", "n", "N", "a", "m", "e">>,
           <<"U+0B38", "U+0B4D", "U+0B2C", "U+0B3E", "U+0B2E", "U+0B40",
               "U+0B19", "U+0B4D", "U+0B15", " ", "U+0B28", "U+0B3E",
               "U+0B2E">>,
           <<"H", "u", "s", "b", "a", "n", "d", " ", "N", "a", "m", "e">>,
           <<"U+0B38", "U+0B4D", "U+0B71", "U+0B3E", "U+0B2E", "U+0B40">>,
           <<"H", "u", "s", "b", "a", "n", "d">>,
           <<"U+0B2A", "U+0B3F", "U+0B24", "U+0B3E", "U+0B19", "U+0B4D",
               "U+0B15", " ", "U+0B28", "U+0B3E", "U+0B2E">>,
           <<"F", "a", "t", "h", "e", "r", " ", "N", "a", "m", "e">>,
           <<"U+0B2E", "U+0B3E", "U+0B24", "U+0B3E", "U+0B19", "U+0B4D",
               "U+0B15", " ", "U+0B28", "U+0B3E", "U+0B2E">>,
           <<"M", "o", "t", "h", "e", "r", " ", "N", "a", "m", "e">>>>]
    >>
KeyNames == {keys[g].keyName : g \in DOMAIN keys}
\* keys.flatMap(...)
allKeyAlternatives == FlatMapIdx(LAMBDA g : keys[g].alternatives, 1, Len(keys))

\* The label matches the text at position i, letters compared without case
\* (the "i" flag).
LabelAt(text, i, label) ==
    /\ i >= 1 /\ i + Len(label) - 1 <= Len(text)
    /\ \A j \in 1 .. Len(label) :
          ToUpperChar(text[i + j - 1]) = ToUpperChar(label[j])

\* \s* from position i: the first position that holds no white space.
SkipSpaces(text, i) ==
    LET solid == {j \in i .. Len(text) : ~IsSpace(text[j])}
    IN  IF solid = {} THEN Len(text) + 1 ELSE SetMin(solid)

\* (?:k1|k2|...)\s*: at position i: the positions just after the colon.
KeyColonEnds(text, i, alternatives) ==
    {SkipSpaces(text, i + Len(a)) + 1 :
        a \in {b \in Range(alternatives) :
                 /\ LabelAt(text, i, b)
                 /\ SkipSpaces(text, i + Len(b)) <= Len(text)
                 /\ text[SkipSpaces(text, i + Len(b))] = ":"}}

\* (?=\s*(?:allKeys)\s*:|$) at position e.
NextKeyAhead(text, e) ==
    \/ e = Len(text) + 1
    \/ KeyColonEnds(text, SkipSpaces(text, e), allKeyAlternatives) # {}

\* inputText.match(regex): the capture group of the leftmost match, as
\* <<captured>>, or <<>> when the regular expression does not match.  The
\* value holds one character at least and ends at the first position from
\* which a label of any field and a colon follow, or at the end of input.
FieldMatch(text, alternatives) ==
    LET starts == {i \in 1 .. Len(text) :
                      \E p \in KeyColonEnds(text, i, alternatives) : p <= Len(text)}
        i0 == SetMin(starts)
        p0 == SetMin(KeyColonEnds(text, i0, alternatives))
        s0 == Min2(SkipSpaces(text, p0), Len(text))
        e0 == SetMin({e \in (s0 + 1) .. (Len(text) + 1) : NextKeyAhead(text, e)})
    IN  IF starts = {} THEN <<>> ELSE <<SubSeq(text, s0, e0 - 1)>>

\* value.split(/\n+|\s{3,}/)[0]
FirstPart(value) ==
    LET seps == {j \in 1 .. Len(value) :
                    \/ value[j] = "\n"
                    \/ /\ j + 2 <= Len(value)
                       /\ IsSpace(value[j]) /\ IsSpace(value[j + 1])
                       /\ IsSpace(value[j + 2])}
    IN  IF seps = {} THEN value ELSE SubSeq(value, 1, SetMin(seps) - 1)

\* extractKeyValues(inputText): the map from field names to values.
extractKeyValues(inputText) ==
    LET Found(g) == FieldMatch(inputText, keys[g].alternatives)
        hit == {g \in DOMAIN keys : Found(g) # <<>>}
        Group(name) == CHOOSE g \in hit : keys[g].keyName = name
    IN  [name \in {keys[g].keyName : g \in hit} |->
            Trim(FirstPart(Trim(Found(Group(name))[1])))]

(***************************************************************************)
(* extractKeyValues on texts made of labelled fields.                      *)
(***************************************************************************)
\* The label alternatives the texts use, by their place in the field's row
\* of the table, and the value written after each field's label.
LabelChoices == <<{2, 3}, {2, 3}, {2, 4}, {2, 3}, {2, 5}>>
FieldValues ==
    <<<<"U+0B38", "U+0B02", "U+0B1C", "U+0B5F">>,
      <<"3", "7">>,
      <<"U+0B38", "U+0B4D", "U+0B24", "U+0B4D", "U+0B30", "U+0B40">>,
      <<"1", "2">>,
      <<"U+0B30", "U+0B2C", "U+0B3F", " ", "U+0B26", "U+0B3E", "U+0B38">>>>
FieldChoices ==
    {[field |-> g, label |-> a, blank |-> b] :
        g \in DOMAIN keys, a \in UNION Range(LabelChoices), b \in BOOLEAN}
\* One label per field, every field once at most, one value at most left
\* out.
FieldSeqs ==
    {fs \in UNION {[1 .. k -> FieldChoices] : k \in 1 .. MaxFields} :
        /\ \A i \in DOMAIN fs : fs[i].label \in LabelChoices[fs[i].field]
        /\ \A i, j \in DOMAIN fs : i # j => fs[i].field # fs[j].field
        /\ Cardinality({i \in DOMAIN fs : fs[i].blank}) <= 1}

LabelOf(f) == keys[f.field].alternatives[f.label]
FieldText(f) ==
    IF f.blank THEN LabelOf(f) \o <<":">>
    ELSE LabelOf(f) \o <<":", " ">> \o FieldValues[f.field]
\* The fields one after the other, two blanks between them.
RECURSIVE BuildText(_)
BuildText(fs) ==
    IF fs = <<>> THEN <<>>
    ELSE IF Len(fs) = 1 THEN FieldText(fs[1])
    ELSE FieldText(fs[1]) \o <<" ", " ">> \o BuildText(Tail(fs))
\* The same fields in the order of the table.
TableOrder(fs) == SortSeq(fs, LAMBDA a, b : a.field < b.field)

InitExtract ==
    /\ kvPc = "ready"
    /\ kvFields \in FieldSeqs
    /\ kvText = BuildText(kvFields)
    /\ kvResult = <<>> /\ kvCanonical = <<>>
    /\ ValidateIdle /\ ParseIdle /\ RollIdle /\ WorkerIdle /\ AgeIdle
    /\ AnchorIdle /\ DetectIdle /\ PageIdle /\ TransIdle

\* extractKeyValues(inputText) on the text, and on the text whose fields
\* stand in the order of the table.
ExtractKeyValues ==
    /\ kvPc = "ready"
    /\ kvResult' = extractKeyValues(kvText)
    /\ kvCanonical' = extractKeyValues(BuildText(TableOrder(kvFields)))
    /\ kvPc' = "done"
    /\ UNCHANGED <<kvFields, kvText, validateVars, parseVars, rollVars, workerVars, ageVars,
                   anchorVars, detectVars, pageVars, transVars>>

NextExtract == ExtractKeyValues
SpecExtract == InitExtract /\ [][NextExtract]_vars

(***************************************************************************)
(* The record parser: ImprovedElectoralRollParser of                       *)
(* src/modules/parser.js.  Of the address only the house number is kept;   *)
(* the other address fields copy the header of the first page.             *)
(***************************************************************************)
\* String.prototype.includes
Includes(text, sub) ==
    \E i \in 1 .. (Len(text) - Len(sub) + 1) : SubSeq(text, i, i + Len(sub) - 1) = sub
ToLowerCase(s) == [i \in DOMAIN s |-> ToLowerChar(s[i])]
\* parseInt of a run of digits.
RECURSIVE ParseInt(_)
ParseInt(digits) ==
    IF digits = <<>> THEN 0
    ELSE 10 * ParseInt(SubSeq(digits, 1, Len(digits) - 1))
           + (CHOOSE n \in 0 .. 9 : Decimal(n) = <<digits[Len(digits)]>>)
\* \b at the gap before position i.
WordBoundary(text, i) ==
    LET before == i > 1 /\ IsWordChar(text[i - 1])
        after == i <= Len(text) /\ IsWordChar(text[i])
    IN  before # after
\* The longest run of digits from position i.
DigitRun(text, i) ==
    LET stops == {j \in i .. Len(text) : ~IsDigit(text[j])}
    IN  SubSeq(text, i, IF stops = {} THEN Len(text) ELSE SetMin(stops) - 1)
\* words.map(w => w.text).join(' ')
RECURSIVE JoinWords(_)
JoinWords(texts) ==
    IF texts = <<>> THEN <<>>
    ELSE IF Len(texts) = 1 THEN texts[1]
    ELSE texts[1] \o <<" ">> \o JoinWords(Tail(texts))

labelWords ==
    <<<<"U+0B18", "U+0B30">>,
    <<"U+0B18", "U+0B30", "U+0B3E">>,
    <<"U+0B2E", "U+0B3F", "U+0B30">>,
    <<"U+0B30", "U+0B3E", "U+0B2E", "U+0B3E">>,
    <<"U+0B39", "U+0B3E", "U+0B07">>,
    <<"U+0B18", "U+0B28">>,
    <<"U+0B18", "U+0B28", "U+0B3E">>,
    <<"U+0B18", "U+0B2E", "U+0B3E">>,
    <<"U+0B28", "U+0B02">>,
    <<"U+0B28", "U+0B3E", "U+0B2E">>,
    <<"U+0B2A", "U+0B3F", "U+0B24", "U+0B3E">>,
    <<"U+0B2E", "U+0B3E", "U+0B24", "U+0B3E">>,
    <<"U+0B38", "U+0B4D", "U+0B71", "U+0B3E", "U+0B2E", "U+0B40">>,
    <<"U+0B2C", "U+0B5F", "U+0B38">>,
    <<"n", "a", "m", "e">>,
    <<"f", "a", "t", "h", "e", "r">>,
    <<"m", "o", "t", "h", "e", "r">>>>

\* matchesKeywords(text, keywords)
matchesKeywords(text, keywords) ==
    \E k \in Range(keywords) :
        Includes(ToLowerCase(text), ToLowerCase(k)) \/ Includes(text, k)

Pita == <<"U+0B2A", "U+0B3F", "U+0B24", "U+0B3E">>
Mata == <<"U+0B2E", "U+0B3E", "U+0B24", "U+0B3E">>
Swami == <<"U+0B38", "U+0B4D", "U+0B71", "U+0B3E", "U+0B2E", "U+0B40">>
Mahila == <<"U+0B2E", "U+0B39", "U+0B3F", "U+0B33", "U+0B3E">>
Stri == <<"U+0B38", "U+0B4D", "U+0B24", "U+0B4D", "U+0B30", "U+0B40">>
Purusha == <<"U+0B2A", "U+0B41", "U+0B30", "U+0B41", "U+0B37">>
Ghara == <<"U+0B18", "U+0B30">>
RelationKeywords ==
    <<Pita, Mata, Swami, <<"f", "a", "t", "h", "e", "r">>,
      <<"h", "u", "s", "b", "a", "n", "d">>, <<"m", "o", "t", "h", "e", "r">>>>

\* filterLabelWords(words): neither a label word nor a number under 200.
filterLabelWords(words) ==
    SelectSeq(words, LAMBDA word :
        LET text == Trim(word.text)
        IN  /\ ~\E label \in Range(labelWords) : Includes(text, label)
            /\ ~(/\ Len(text) \in 1 .. 3
                 /\ \A i \in DOMAIN text : IsDigit(text[i])
                 /\ ParseInt(text) < 200))

\* The loop of extractNameFromWords: the longest run of consecutive words
\* that hold Odia script, every word with a blank before it.
RECURSIVE LongestOdiaRun(_, _, _)
LongestOdiaRun(words, currentOdia, longestOdia) ==
    IF words = <<>>
    THEN IF Len(currentOdia) > Len(longestOdia) THEN currentOdia ELSE longestOdia
    ELSE IF isOdiaText(words[1].text)
    THEN LongestOdiaRun(Tail(words), currentOdia \o <<" ">> \o words[1].text,
                        longestOdia)
    ELSE LongestOdiaRun(Tail(words), <<>>,
                        IF Len(currentOdia) > Len(longestOdia)
                        THEN currentOdia ELSE longestOdia)

\* english || odia, capitalized.
EnglishOr(english, odia) ==
    capitalizeWords(IF english # <<>> THEN english ELSE odia)

\* What translator.translateToEnglish may answer for a text: a translation,
\* or the transliteration when the external call fails.
TranslatorAnswers(odia) ==
    {<<"n", "a", "m", "e">>} \cup {romanizeOdia(normalizeText(odia))}

\* extractNameFromWords(words), the answer of the translator given.
extractNameFromWords(words, english) ==
    LET odia == Trim(LongestOdiaRun(words, <<>>, <<>>))
    IN  IF words = <<>> \/ Len(odia) < 3
        THEN [odia |-> <<>>, english |-> <<>>]
        ELSE [odia |-> odia, english |-> EnglishOr(english, odia)]
\* The text that extractNameFromWords hands to the translator, <<>> when it
\* asks for nothing.
NameToTranslate(words) ==
    LET odia == Trim(LongestOdiaRun(words, <<>>, <<>>))
    IN  IF words = <<>> \/ Len(odia) < 3 THEN <<>> ELSE odia

\* The relation name of extractRelationFromWords: the Odia words after the
\* first word that holds a relation keyword.
RelationName(words) ==
    LET hits == {i \in DOMAIN words : matchesKeywords(words[i].text, RelationKeywords)}
        relationIdx == SetMin(hits)
        nameWords == SubSeq(words, relationIdx + 1, Len(words))
        odiaWords == SelectSeq(nameWords, LAMBDA w : isOdiaText(w.text))
    IN  IF hits # {} /\ relationIdx < Len(words)
        THEN JoinWords([i \in DOMAIN odiaWords |-> odiaWords[i].text])
        ELSE <<>>
\* The relation type read from a text.
RelationType(text) ==
    IF matchesKeywords(text, <<Mata, <<"m", "o", "t", "h", "e", "r">>>>) THEN "Mother"
    ELSE IF Includes(ToLowerCase(text), <<"h", "u", "s", "b", "a", "n", "d">>) \/ Includes(text, Swami)
    THEN "Husband"
    ELSE "Father"
\* extractRelationFromWords(words), the answer of the translator given.
extractRelationFromWords(words, english) ==
    LET text == JoinWords([i \in DOMAIN words |-> words[i].text])
        relationName == RelationName(words)
    IN  [type |-> RelationType(text),
         name |-> [odia |-> relationName,
                   english |-> IF relationName = <<>> THEN <<>>
                               ELSE EnglishOr(english, relationName)]]

\* The test extractAge puts to each two-digit token.
AgeFitsFromTen(age) == age >= 10 /\ age <= 120
AgeFits(age) == age >= 18 /\ age <= 120
\* extractAge(text): the first two-digit token within 18..120, else 25.
extractAge(text) ==
    LET tokens == {i \in 1 .. (Len(text) - 1) :
                      /\ IsDigit(text[i]) /\ IsDigit(text[i + 1])
                      /\ WordBoundary(text, i) /\ WordBoundary(text, i + 2)}
        fit == {i \in tokens : AgeFits(ParseInt(SubSeq(text, i, i + 1)))}
    IN  IF fit = {} THEN 25 ELSE ParseInt(SubSeq(text, SetMin(fit), SetMin(fit) + 1))

\* extractGender(text, relationType)
extractGender(text, relationType) ==
    IF matchesKeywords(text, <<Mahila, Stri, <<"f", "e", "m", "a", "l", "e">>>>) THEN "Female"
    ELSE IF matchesKeywords(text, <<Purusha, <<"m", "a", "l", "e">>>>) THEN "Male"
    ELSE IF relationType = "Husband" THEN "Female"
    ELSE "Male"

\* (?:H\.?\s*No|House|...) at position i: the positions after the label.
HouseLabelEnds(text, i) ==
    {i + Len(l) : l \in {m \in {<<"H", "o", "u", "s", "e">>, Ghara} : LabelAt(text, i, m)}}
      \cup {q + 2 : q \in {r \in {SkipSpaces(text, IF LabelAt(text, i + 1, <<".">>)
                                                    THEN i + 2 ELSE i + 1)} :
                              /\ LabelAt(text, i, <<"H">>)
                              /\ LabelAt(text, r, <<"N", "o">>)}}
\* [\s:]* from position i.
SkipSpacesColons(text, i) ==
    LET solid == {j \in i .. Len(text) : ~IsSpace(text[j]) /\ text[j] # ":"}
    IN  IF solid = {} THEN Len(text) + 1 ELSE SetMin(solid)
\* The digits captured by the labelled pattern, <<>> when it does not match.
LabelledHouse(text) ==
    LET DigitsFrom(i) == {SkipSpacesColons(text, e) : e \in HouseLabelEnds(text, i)}
        starts == {i \in 1 .. Len(text) :
                     \E d \in DigitsFrom(i) : d <= Len(text) /\ IsDigit(text[d])}
        i0 == SetMin(starts)
        d0 == CHOOSE d \in DigitsFrom(i0) : d <= Len(text) /\ IsDigit(text[d])
    IN  IF starts = {} THEN <<>> ELSE DigitRun(text, d0)
\* The digits captured by /\b(\d{1,4})\b/, <<>> when it does not match.
BareHouse(text) ==
    LET starts == {i \in 1 .. Len(text) :
                     /\ IsDigit(text[i]) /\ WordBoundary(text, i)
                     /\ Len(DigitRun(text, i)) <= 4
                     /\ WordBoundary(text, i + Len(DigitRun(text, i)))}
    IN  IF starts = {} THEN <<>> ELSE DigitRun(text, SetMin(starts))
\* extractHouseNumber(text)
extractHouseNumber(text) ==
    LET InRange(m) == m # <<>> /\ ParseInt(m) > 0 /\ ParseInt(m) < 10000
    IN  IF InRange(LabelledHouse(text)) THEN LabelledHouse(text)
        ELSE IF InRange(BareHouse(text)) THEN BareHouse(text)
        ELSE <<>>

\* parseVoterBlock(block, serialNo), the translator's answers given.
parseVoterBlock(block, serialNo, nameEnglish, relationEnglish) ==
    LET contentWords == filterLabelWords(block.words)
        relationData == extractRelationFromWords(contentWords, relationEnglish)
    IN  [serialNo |-> serialNo,
         voterId |-> block.voterId,
         name |-> extractNameFromWords(contentWords, nameEnglish),
         relation |-> relationData,
         houseNo |-> extractHouseNumber(block.text),
         age |-> extractAge(block.text),
         gender |-> extractGender(block.text, relationData.type),
         section |-> "Section 1"]

\* The block of the worked example: its identifier, its text, and the words
\* of the text as the recognition may cut them, at white space or with
\* the colons apart.
SampleId == <<"Y", "V", "Y", "1", "4", "3", "5", "8", "4", "1">>
SampleText ==
    <<"U+0B28", "U+0B3E", "U+0B2E", ":", " ", "U+0B2A", "U+0B42", "U+0B30",
      "U+0B4D", "U+0B23", "U+0B4D", "U+0B23", "U+0B3F", "U+0B2E", "U+0B3E",
      " ", "U+0B2C", "U+0B47", "U+0B39", "U+0B47", "U+0B30", "U+0B3E", " ",
      " ", "U+0B38", "U+0B4D", "U+0B2C", "U+0B3E", "U+0B2E", "U+0B40",
      "U+0B19", "U+0B4D", "U+0B15", " ", "U+0B28", "U+0B3E", "U+0B2E", ":",
      " ", "U+0B38", "U+0B02", "U+0B1C", "U+0B5F", " ", "U+0B2C", "U+0B47",
      "U+0B39", "U+0B47", "U+0B30", "U+0B3E", " ", " ", "U+0B2C", "U+0B5F",
      "U+0B38", ":", " ", "3", "7", " ", "U+0B32", "U+0B3F", "U+0B17",
      "U+0B02", " ", ":", " ", "U+0B38", "U+0B4D", "U+0B24", "U+0B4D",
      "U+0B30", "U+0B40">>
SampleWords ==
    <<[text |-> <<"U+0B28", "U+0B3E", "U+0B2E", ":">>],
      [text |-> <<"U+0B2A", "U+0B42", "U+0B30", "U+0B4D", "U+0B23",
                    "U+0B4D", "U+0B23", "U+0B3F", "U+0B2E", "U+0B3E">>],
      [text |-> <<"U+0B2C", "U+0B47", "U+0B39", "U+0B47", "U+0B30",
                    "U+0B3E">>],
      [text |-> <<"U+0B38", "U+0B4D", "U+0B2C", "U+0B3E", "U+0B2E",
                    "U+0B40", "U+0B19", "U+0B4D", "U+0B15">>],
      [text |-> <<"U+0B28", "U+0B3E", "U+0B2E", ":">>],
      [text |-> <<"U+0B38", "U+0B02", "U+0B1C", "U+0B5F">>],
      [text |-> <<"U+0B2C", "U+0B47", "U+0B39", "U+0B47", "U+0B30",
                    "U+0B3E">>],
      [text |-> <<"U+0B2C", "U+0B5F", "U+0B38", ":">>],
      [text |-> <<"3", "7">>],
      [text |-> <<"U+0B32", "U+0B3F", "U+0B17", "U+0B02">>],
      [text |-> <<":">>],
      [text |-> <<"U+0B38", "U+0B4D", "U+0B24", "U+0B4D", "U+0B30",
                    "U+0B40">>]>>
SampleWordsColonsApart ==
    <<[text |-> <<"U+0B28", "U+0B3E", "U+0B2E">>],
      [text |-> <<":">>],
      [text |-> <<"U+0B2A", "U+0B42", "U+0B30", "U+0B4D", "U+0B23",
                    "U+0B4D", "U+0B23", "U+0B3F", "U+0B2E", "U+0B3E">>],
      [text |-> <<"U+0B2C", "U+0B47", "U+0B39", "U+0B47", "U+0B30",
                    "U+0B3E">>],
      [text |-> <<"U+0B38", "U+0B4D", "U+0B2C", "U+0B3E", "U+0B2E",
                    "U+0B40", "U+0B19", "U+0B4D", "U+0B15">>],
      [text |-> <<"U+0B28", "U+0B3E", "U+0B2E">>],
      [text |-> <<":">>],
      [text |-> <<"U+0B38", "U+0B02", "U+0B1C", "U+0B5F">>],
      [text |-> <<"U+0B2C", "U+0B47", "U+0B39", "U+0B47", "U+0B30",
                    "U+0B3E">>],
      [text |-> <<"U+0B2C", "U+0B5F", "U+0B38">>],
      [text |-> <<":">>],
      [text |-> <<"3", "7">>],
      [text |-> <<"U+0B32", "U+0B3F", "U+0B17", "U+0B02">>],
      [text |-> <<":">>],
      [text |-> <<"U+0B38", "U+0B4D", "U+0B24", "U+0B4D", "U+0B30",
                    "U+0B40">>]>>
SampleName == <<"U+0B2A", "U+0B42", "U+0B30", "U+0B4D", "U+0B23", "U+0B4D",
                "U+0B23", "U+0B3F", "U+0B2E", "U+0B3E", " ", "U+0B2C",
                "U+0B47", "U+0B39", "U+0B47", "U+0B30", "U+0B3E">>
SampleRelationName == <<"U+0B38", "U+0B02", "U+0B1C", "U+0B5F", " ",
                        "U+0B2C", "U+0B47", "U+0B39", "U+0B47", "U+0B30",
                        "U+0B3E">>

\* The age test of isValidVoter.
AgeInclusive(age) == age >= 18 /\ age <= 120
AgeExclusive(age) == age > 18 /\ age < 120
AgeInRange(age) == AgeInclusive(age)
\* voter.voterId.match(/[A-Z]{3}\d{7}/): the pattern is found in the id.
IdMatches(voterId) == LettersDigitsTest(voterId, 3, 3, 7, 7)
\* isValidVoter(voter)
isValidVoter(voter) ==
    /\ voter.voterId # <<>>
    /\ IdMatches(voter.voterId)
    /\ Len(voter.name.odia) > 2
    /\ ~\E label \in Range(labelWords) : Includes(voter.name.odia, label)
    /\ AgeInRange(voter.age)

(***************************************************************************)
(* isValidVoter on records of every kind.                                  *)
(***************************************************************************)
PlaceholderBlock == <<"B", "L", "O", "C", "K", "_", "1">>
PlaceholderGrid == <<"G", "R", "I", "D", "_", "1">>
RelaxedLong == <<"A", "B", "C", "D", "1", "2", "3", "4", "5", "6", "7", "8">>
IdPool == {IdText, SampleId, IdTextLong, RelaxedText, RelaxedLong,
           PlaceholderBlock, PlaceholderGrid, <<>>}
NamePool == {SampleName, SampleRelationName, OdiaText, <<"U+0B30", "U+0B3E">>, <<>>}
AgePool == {17, 18, 25, 120, 121}
VoterPool ==
    {[voterId |-> id, name |-> [odia |-> n], age |-> a] :
        id \in IdPool, n \in NamePool, a \in AgePool}

InitValidate ==
    /\ vPc = "ready" /\ vVoter \in VoterPool /\ vResult = FALSE
    /\ ExtractIdle /\ ParseIdle /\ RollIdle /\ WorkerIdle /\ AgeIdle
    /\ AnchorIdle /\ DetectIdle /\ PageIdle /\ TransIdle

\* isValidVoter(voter)
IsValidVoter ==
    /\ vPc = "ready"
    /\ vResult' = isValidVoter(vVoter)
    /\ vPc' = "done"
    /\ UNCHANGED <<vVoter, extractVars, parseVars, rollVars, workerVars, ageVars,
                   anchorVars, detectVars, pageVars, transVars>>

NextValidate == IsValidVoter
SpecValidate == InitValidate /\ [][NextValidate]_vars

(***************************************************************************)
(* The page-text path: extractVotersFromText and parseTextChunk.           *)
(***************************************************************************)
\* The first position from which [A-Z]{3}\d{7} matches, 0 when none does.
FirstIdAt(text) ==
    LET starts == {i \in 1 .. Len(text) :
                      RunOf(text, i, 3, IsUpper) /\ RunOf(text, i + 3, 7, IsDigit)}
    IN  IF starts = {} THEN 0 ELSE SetMin(starts)
\* text.match(voterIdPattern) and text.split(voterIdPattern) together:
\* every identifier with the chunk that follows it.
RECURSIVE IdChunks(_)
IdChunks(text) ==
    LET i0 == FirstIdAt(text)
        rest == SubSeq(text, i0 + 10, Len(text))
        next == FirstIdAt(rest)
    IN  IF i0 = 0 THEN <<>>
        ELSE <<[voterId |-> SubSeq(text, i0, i0 + 9),
                chunk |-> IF next = 0 THEN rest ELSE SubSeq(rest, 1, next - 1)]>>
               \o IdChunks(rest)

\* chunk.split('\n').filter(l => l.trim())
RECURSIVE SplitLines(_)
SplitLines(chunk) ==
    LET breaks == {i \in DOMAIN chunk : chunk[i] = "\n"}
        first == IF breaks = {} THEN chunk ELSE SubSeq(chunk, 1, SetMin(breaks) - 1)
        kept == IF Trim(first) = <<>> THEN <<>> ELSE <<first>>
    IN  IF breaks = {} THEN kept
        ELSE kept \o SplitLines(SubSeq(chunk, SetMin(breaks) + 1, Len(chunk)))

\* text.match(/[U+0B00-U+0B7F\s]+/g): the runs of Odia letters and white
\* space.
RECURSIVE OdiaRuns(_)
OdiaRuns(text) ==
    LET InRun(c) == IsOdiaChar(c) \/ IsSpace(c)
        starts == {i \in DOMAIN text : InRun(text[i])}
        i0 == SetMin(starts)
        stops == {j \in i0 .. Len(text) : ~InRun(text[j])}
        j0 == IF stops = {} THEN Len(text) + 1 ELSE SetMin(stops)
    IN  IF starts = {} THEN <<>>
        ELSE <<SubSeq(text, i0, j0 - 1)>> \o OdiaRuns(SubSeq(text, j0, Len(text)))
\* extractOdiaText(text)
extractOdiaText(text) == Trim(JoinWords(OdiaRuns(text)))

\* extractName(line), the answer of the translator given.
extractName(line, english) ==
    IF line = <<>> \/ Len(extractOdiaText(line)) < 3
    THEN [odia |-> <<>>, english |-> <<>>]
    ELSE [odia |-> extractOdiaText(line), english |-> capitalizeWords(english)]

\* The part of a relation line after its first colon.
NamePart(line) ==
    LET colons == {i \in DOMAIN line : line[i] = ":"}
    IN  IF colons = {} THEN line ELSE SubSeq(line, SetMin(colons) + 1, Len(line))
\* extractRelation(line), the answer of the translator given.
extractRelation(line, english) ==
    LET odia == extractOdiaText(NamePart(line))
    IN  [type |-> RelationType(line),
         name |-> [odia |-> odia,
                   english |-> capitalizeWords(IF odia # <<>> THEN english
                                               ELSE NamePart(line))]]

\* lines.find(l => matchesKeywords(l, [...])) || lines[1] || ''
RelationLine(lines) ==
    LET hits == {i \in DOMAIN lines : matchesKeywords(lines[i], RelationKeywords)}
    IN  IF hits # {} THEN lines[SetMin(hits)]
        ELSE IF Len(lines) >= 2 THEN lines[2]
        ELSE <<>>
FirstLine(lines) == IF lines = <<>> THEN <<>> ELSE lines[1]

\* parseTextChunk(chunk, voterId, serialNo), the translator's answers given.
parseTextChunk(chunk, voterId, serialNo, nameEnglish, relationEnglish) ==
    LET lines == SplitLines(chunk)
        relationData == extractRelation(RelationLine(lines), relationEnglish)
    IN  [serialNo |-> serialNo,
         voterId |-> voterId,
         name |-> extractName(FirstLine(lines), nameEnglish),
         relation |-> relationData,
         houseNo |-> extractHouseNumber(chunk),
         age |-> extractAge(chunk),
         gender |-> extractGender(chunk, relationData.type),
         section |-> "Section 1"]

(***************************************************************************)
(* extractAllVoters: the pages one after the other, every page on the      *)
(* per-block path when it has blocks and on the page-text path otherwise.  *)
(***************************************************************************)
\* The blocks and the page texts that the pages hold.  A block with
\* hasWords FALSE has no words property.
SampleBlock ==
    [voterId |-> SampleId, hasWords |-> TRUE, words |-> SampleWords,
     text |-> SampleText]
SampleBlockColonsApart ==
    [voterId |-> SampleId, hasWords |-> TRUE, words |-> SampleWordsColonsApart,
     text |-> SampleText]
NamelessText == <<"A", "B", "C", "1", "2", "3", "4", "5", "6", "7", " ",
                  "4", "5", " ", "m", "a", "l", "e">>
NamelessBlock ==
    [voterId |-> IdText, hasWords |-> TRUE,
     words |-> <<[text |-> IdText], [text |-> <<"4", "5">>],
                 [text |-> <<"m", "a", "l", "e">>]>>,
     text |-> NamelessText]
GridBlock == [SampleBlock EXCEPT !.voterId = PlaceholderGrid]
WordlessBlock ==
    [voterId |-> IdText, hasWords |-> FALSE, words |-> <<>>, text |-> <<>>]
BlockPool == {SampleBlock, SampleBlockColonsApart, NamelessBlock, GridBlock,
              WordlessBlock}
PageTextPlain ==
    <<"A", "B", "C", "1", "2", "3", "4", "5", "6", "7", "\n", "U+0B30",
      "U+0B2C", "U+0B3F", " ", "U+0B26", "U+0B3E", "U+0B38", "\n",
      "U+0B2A", "U+0B3F", "U+0B24", "U+0B3E", ":", " ", "U+0B39", "U+0B30",
      "U+0B3F", " ", "U+0B26", "U+0B3E", "U+0B38", "\n", "3", "7">>
PageTextLabelled ==
    <<"A", "B", "C", "1", "2", "3", "4", "5", "6", "7", " ", "U+0B28",
      "U+0B3E", "U+0B2E", ":", " ", "U+0B30", "U+0B2C", "U+0B3F", " ",
      "U+0B26", "U+0B3E", "U+0B38", " ", "3", "7">>
PageTextTwoIds ==
    <<"X", "Y", "Z", "7", "6", "5", "4", "3", "2", "1", "\n", "U+0B30",
      "U+0B2C", "U+0B3F", " ", "U+0B26", "U+0B3E", "U+0B38", " ", "4", "0",
      " ", "X", "Y", "Z", "7", "6", "5", "4", "3", "2", "2", " ", "a", "b">>
PageTexts == {PageTextPlain, PageTextLabelled, PageTextTwoIds, NamelessText}

\* voter && this.isValidVoter(voter)
AcceptsAll(voter) == TRUE
Accepts(voter) == isValidVoter(voter)

\* The answers the translator gives for a name and a relation name; <<>>
\* where it is not asked.
AnswersFor(odia) == IF odia = <<>> THEN {<<>>} ELSE TranslatorAnswers(odia)

\* The serial numbers a candidate of the model can be given.
SerialNos == 1 .. MaxCandidates
\* parseVoterBlock on every block with words and every serial number, with
\* every answer of the translator: worked out once.
BlockOutcomes ==
    UNION {{[block |-> block, serialNo |-> n,
             voter |-> parseVoterBlock(block, n, nameEnglish, relationEnglish)] :
               n \in SerialNos,
               nameEnglish \in AnswersFor(NameToTranslate(filterLabelWords(block.words))),
               relationEnglish \in AnswersFor(RelationName(filterLabelWords(block.words)))} :
           block \in {b \in BlockPool : b.hasWords}}
\* The identifiers of the page texts with their chunks.
PageChunks == [text \in PageTexts |-> IdChunks(text)]
\* parseTextChunk on every chunk of the page texts, likewise.
ChunkOutcomes ==
    UNION {{[chunk |-> c.chunk, voterId |-> c.voterId, serialNo |-> n,
             voter |-> parseTextChunk(c.chunk, c.voterId, n, nameEnglish,
                                      relationEnglish)] :
               n \in SerialNos,
               nameEnglish \in AnswersFor((extractName(FirstLine(SplitLines(c.chunk)), <<>>)).odia),
               relationEnglish \in AnswersFor(extractOdiaText(NamePart(RelationLine(SplitLines(c.chunk)))))} :
           c \in UNION {Range(PageChunks[text]) : text \in PageTexts}}

InitParse ==
    /\ prPc = "pages" /\ prPageNo = 0 /\ prBlocksLeft = 0 /\ prChunks = <<>>
    /\ prItem = 0 /\ prStart = 0 /\ prPageVoters = <<>> /\ voters = <<>>
    /\ globalSerialNo = 1 /\ prParsed = 0 /\ prChecked = <<>>
    /\ prCandidate = <<>>
    /\ ExtractIdle /\ ValidateIdle /\ RollIdle /\ WorkerIdle /\ AgeIdle
    /\ AnchorIdle /\ DetectIdle /\ PageIdle /\ TransIdle

\* A candidate was parsed: it is validated once, and pushed when valid.
\* After the last candidate of the page the page's records join the Roll.
Submit(voter, lastOfPage) ==
    LET pageVoters == IF Accepts(voter) THEN Append(prPageVoters, voter)
                      ELSE prPageVoters
    IN  /\ prChecked' = Append(prChecked, [page |-> prPageNo, item |-> prItem,
                                           voter |-> voter,
                                           valid |-> isValidVoter(voter)])
        /\ IF lastOfPage
           THEN /\ voters' = voters \o pageVoters
                /\ globalSerialNo' = globalSerialNo + Len(pageVoters)
                /\ prPageVoters' = <<>>
                /\ prPc' = "pages"
           ELSE /\ prPageVoters' = pageVoters
                /\ UNCHANGED <<voters, globalSerialNo, prPc>>
\* A candidate was skipped without validation.
Skip(lastOfPage) ==
    /\ UNCHANGED prChecked
    /\ IF lastOfPage
       THEN /\ voters' = voters \o prPageVoters
            /\ globalSerialNo' = globalSerialNo + Len(prPageVoters)
            /\ prPageVoters' = <<>>
            /\ prPc' = "pages"
       ELSE UNCHANGED <<prPageVoters, voters, globalSerialNo, prPc>>

\* extractAllVoters reaches a page that has blocks: extractVotersFromBlocks
\* begins.
StartBlockPage ==
    /\ prPc = "pages" /\ prPageNo < MaxPages
    /\ \E n \in 1 .. MaxBlocks :
          /\ prParsed + n <= MaxCandidates
          /\ prBlocksLeft' = n
    /\ prPageNo' = prPageNo + 1
    /\ prItem' = 0 /\ prStart' = globalSerialNo
    /\ prPc' = "blocks"
    /\ UNCHANGED <<prChunks, prPageVoters, voters, globalSerialNo, prParsed,
                   prChecked, prCandidate, extractVars, validateVars, rollVars, workerVars, ageVars,
                   anchorVars, detectVars, pageVars, transVars>>

\* One turn of the loop of extractVotersFromBlocks: parseVoterBlock, the
\* validation, the push.  A block without words makes parseVoterBlock
\* raise; the catch logs and the loop goes on.
ParseBlock ==
    /\ prPc = "blocks"
    /\ \E block \in BlockPool :
          IF ~block.hasWords
          THEN /\ Skip(prBlocksLeft = 1)
               /\ UNCHANGED prCandidate
          ELSE \E parsed \in BlockOutcomes :
                  /\ parsed.block = block
                  /\ parsed.serialNo = prStart + prItem
                  /\ Submit(parsed.voter, prBlocksLeft = 1)
                  /\ prCandidate' = <<[block |-> block, voter |-> parsed.voter]>>
    /\ prBlocksLeft' = prBlocksLeft - 1
    /\ prItem' = prItem + 1
    /\ prParsed' = prParsed + 1
    /\ UNCHANGED <<prPageNo, prChunks, prStart, extractVars, validateVars, rollVars, workerVars, ageVars,
                   anchorVars, detectVars, pageVars, transVars>>

\* extractAllVoters reaches a page without blocks: extractVotersFromText
\* cuts the page text at the identifiers.
StartTextPage ==
    /\ prPc = "pages" /\ prPageNo < MaxPages
    /\ \E text \in PageTexts :
          /\ prParsed + Len(PageChunks[text]) <= MaxCandidates
          /\ prChunks' = PageChunks[text]
          /\ prPc' = IF PageChunks[text] = <<>> THEN "pages" ELSE "chunks"
    /\ prPageNo' = prPageNo + 1
    /\ prItem' = 0 /\ prStart' = globalSerialNo
    /\ UNCHANGED <<prBlocksLeft, prPageVoters, voters, globalSerialNo, prParsed,
                   prChecked, prCandidate, extractVars, validateVars, rollVars, workerVars, ageVars,
                   anchorVars, detectVars, pageVars, transVars>>

\* One turn of the loop of extractVotersFromText: a chunk shorter than 10
\* is passed over, any other is parsed, validated and pushed when valid.
ParseChunk ==
    /\ prPc = "chunks"
    /\ LET voterId == prChunks[1].voterId
           chunk == prChunks[1].chunk
           last == Len(prChunks) = 1
       IN  IF Len(chunk) < 10
           THEN Skip(last)
           ELSE \E parsed \in ChunkOutcomes :
                   /\ parsed.chunk = chunk /\ parsed.voterId = voterId
                   /\ parsed.serialNo = prStart + prItem
                   /\ Submit(parsed.voter, last)
    /\ prChunks' = Tail(prChunks)
    /\ prItem' = prItem + 1
    /\ prParsed' = prParsed + 1
    /\ UNCHANGED <<prPageNo, prBlocksLeft, prStart, prCandidate,
                   extractVars, validateVars, rollVars, workerVars, ageVars,
                   anchorVars, detectVars, pageVars, transVars>>

\* The pages are through: extractAllVoters returns the Roll's records.
ReturnVoters ==
    /\ prPc = "pages" /\ prPageNo >= 1
    /\ prPc' = "done"
    /\ UNCHANGED <<prPageNo, prBlocksLeft, prChunks, prItem, prStart,
                   prPageVoters, voters, globalSerialNo, prParsed, prChecked,
                   prCandidate, extractVars, validateVars, rollVars, workerVars, ageVars,
                   anchorVars, detectVars, pageVars, transVars>>

NextParse ==
    \/ StartBlockPage
    \/ ParseBlock
    \/ StartTextPage
    \/ ParseChunk
    \/ ReturnVoters
SpecParse == InitParse /\ [][NextParse]_vars

(***************************************************************************)
(* parseElectoralRoll on per-page results, one action per awaited part.    *)
(***************************************************************************)
\* A page of ocrResults as the parser reads it: text (hasText FALSE when
\* the page has no text property), voterBlocks (<<>> when the property is
\* missing or empty), and the number of entries of its blocks property,
\* which the parser never reads.  pageNumber is only logged.
\* What processPageWithBlocks returns: {pageNumber, blocks, ...}.
ProcessPdfPages ==
    {[hasText |-> FALSE, text |-> <<>>, voterBlocks |-> <<>>, blocks |-> k] :
        k \in 0 .. MaxBlocks}
\* Pages of the shape the parser reads: {text, voterBlocks}.
ParserPages ==
    {[hasText |-> TRUE, text |-> t, voterBlocks |-> vb, blocks |-> 0] :
        t \in {PageTextPlain, PageTextTwoIds},
        vb \in {<<>>, <<SampleBlockColonsApart>>, <<GridBlock, WordlessBlock>>}}
RollPages == ProcessPdfPages \cup ParserPages
RollInputs == UNION {[1 .. n -> RollPages] : n \in 0 .. MaxPages}

\* The translator without its external service answers with the
\* transliteration.
OfflineAnswer(odia) ==
    IF odia = <<>> THEN <<>> ELSE romanizeOdia(normalizeText(odia))

\* extractVotersFromBlocks from loop index i on.
RECURSIVE VotersFromBlocks(_, _, _)
VotersFromBlocks(blocks, startingSerialNo, i) ==
    IF i >= Len(blocks) THEN <<>>
    ELSE LET block == blocks[i + 1]
             content == filterLabelWords(block.words)
             voter == parseVoterBlock(block, startingSerialNo + i,
                                      OfflineAnswer(NameToTranslate(content)),
                                      OfflineAnswer(RelationName(content)))
         IN  (IF block.hasWords /\ Accepts(voter) THEN <<voter>> ELSE <<>>)
               \o VotersFromBlocks(blocks, startingSerialNo, i + 1)

\* extractVotersFromText from loop index i on, the identifiers and chunks
\* of the page text given.
RECURSIVE VotersFromChunks(_, _, _)
VotersFromChunks(chunks, startingSerialNo, i) ==
    IF i >= Len(chunks) THEN <<>>
    ELSE LET chunk == chunks[i + 1].chunk
             lines == SplitLines(chunk)
             voter == parseTextChunk(chunk, chunks[i + 1].voterId,
                          startingSerialNo + i,
                          OfflineAnswer((extractName(FirstLine(lines), <<>>)).odia),
                          OfflineAnswer(extractOdiaText(NamePart(RelationLine(lines)))))
         IN  (IF Len(chunk) >= 10 /\ Accepts(voter) THEN <<voter>> ELSE <<>>)
               \o VotersFromChunks(chunks, startingSerialNo, i + 1)

\* The loop of extractAllVoters from page p on: the records, the number of
\* candidates looked at, and whether a page without blocks and without
\* text made text.match raise.
RECURSIVE extractAllVoters(_, _, _)
extractAllVoters(pages, p, serialNo) ==
    IF p > Len(pages) THEN [raised |-> FALSE, voters |-> <<>>, considered |-> 0]
    ELSE LET page == pages[p]
             onBlocks == page.voterBlocks # <<>>
             found == IF onBlocks
                      THEN VotersFromBlocks(page.voterBlocks, serialNo, 0)
                      ELSE VotersFromChunks(IdChunks(page.text), serialNo, 0)
             looked == IF onBlocks THEN Len(page.voterBlocks)
                       ELSE Len(IdChunks(page.text))
             rest == extractAllVoters(pages, p + 1, serialNo + Len(found))
         IN  IF ~onBlocks /\ ~page.hasText
             THEN [raised |-> TRUE, voters |-> <<>>, considered |-> 0]
             ELSE [raised |-> rest.raised,
                   voters |-> found \o rest.voters,
                   considered |-> looked + rest.considered]

\* Math.floor(totalVoters * 0.51), Math.floor(totalVoters * 0.49)
MaleShare(totalVoters) == (51 * totalVoters) \div 100
FemaleShare(totalVoters) == (49 * totalVoters) \div 100
\* extractStatistics: the identifiers of the text of the last page.
extractStatistics(pages) ==
    LET totalVoters == Len(IdChunks(pages[Len(pages)].text))
    IN  [totalVoters |-> totalVoters,
         maleVoters |-> MaleShare(totalVoters),
         femaleVoters |-> FemaleShare(totalVoters)]

\* extractAllVoters on every input of the model: worked out once.
RollOutcomes ==
    {[pages |-> pages, all |-> extractAllVoters(pages, 1, 1)] :
        pages \in RollInputs}

InitRoll ==
    /\ rlPc = "documentInfo" /\ ocrResults \in RollInputs
    /\ rollParts = <<>> /\ rollStats = <<>> /\ rollVoters = <<>>
    /\ rlConsidered = 0
    /\ ExtractIdle /\ ValidateIdle /\ ParseIdle /\ WorkerIdle /\ AgeIdle
    /\ AnchorIdle /\ DetectIdle /\ PageIdle /\ TransIdle

RollRest == <<extractVars, validateVars, parseVars, workerVars, ageVars,
              anchorVars, detectVars, pageVars, transVars>>

\* extractDocumentInfo(firstPage): firstPage.text.match raises when there
\* is no first page or it has no text.
ExtractDocumentInfo ==
    /\ rlPc = "documentInfo"
    /\ IF ocrResults = <<>> \/ ~ocrResults[1].hasText
       THEN rlPc' = "raised" /\ UNCHANGED rollParts
       ELSE /\ rlPc' = "pollingStation"
            /\ rollParts' = Append(rollParts, "documentInfo")
    /\ UNCHANGED <<ocrResults, rollStats, rollVoters, rlConsidered, RollRest>>

\* extractPollingStationInfo(firstPage): firstPage.text.split
ExtractPollingStationInfo ==
    /\ rlPc = "pollingStation"
    /\ IF ocrResults = <<>> \/ ~ocrResults[1].hasText
       THEN rlPc' = "raised" /\ UNCHANGED rollParts
       ELSE /\ rlPc' = "statistics"
            /\ rollParts' = Append(rollParts, "pollingStation")
    /\ UNCHANGED <<ocrResults, rollStats, rollVoters, rlConsidered, RollRest>>

\* extractStatistics(ocrResults): lastPage.text.match raises when the last
\* page has no text.
ExtractStatistics ==
    /\ rlPc = "statistics"
    /\ IF ocrResults = <<>> \/ ~ocrResults[Len(ocrResults)].hasText
       THEN rlPc' = "raised" /\ UNCHANGED <<rollParts, rollStats>>
       ELSE /\ rlPc' = "voters"
            /\ rollStats' = <<extractStatistics(ocrResults)>>
            /\ rollParts' = Append(rollParts, "statistics")
    /\ UNCHANGED <<ocrResults, rollVoters, rlConsidered, RollRest>>

\* extractAllVoters(ocrResults)
ExtractAllVoters ==
    /\ rlPc = "voters"
    /\ \E outcome \in RollOutcomes :
          /\ outcome.pages = ocrResults
          /\ IF outcome.all.raised
             THEN rlPc' = "raised" /\ UNCHANGED <<rollParts, rollVoters, rlConsidered>>
             ELSE /\ rlPc' = "notes"
                  /\ rollVoters' = outcome.all.voters
                  /\ rlConsidered' = outcome.all.considered
                  /\ rollParts' = Append(rollParts, "voters")
    /\ UNCHANGED <<ocrResults, rollStats, RollRest>>

\* generateNotes(ocrResults), and the Roll is returned.
GenerateNotes ==
    /\ rlPc = "notes"
    /\ rollParts' = Append(rollParts, "notes")
    /\ rlPc' = "returned"
    /\ UNCHANGED <<ocrResults, rollStats, rollVoters, rlConsidered, RollRest>>

NextRoll ==
    \/ ExtractDocumentInfo
    \/ ExtractPollingStationInfo
    \/ ExtractStatistics
    \/ ExtractAllVoters
    \/ GenerateNotes
SpecRoll == InitRoll /\ [][NextRoll]_vars

(***************************************************************************)
(* extractAge on its own (SpecAge): a text is drawn, the age is read.      *)
(***************************************************************************)
\* The pieces the texts are put together from: numbers under, at and in
\* the range, a lone digit, a three-digit number, a space, a letter and an
\* Odia letter.
AgePieces ==
    {<<"1", "7">>, <<"1", "8">>, <<"3", "7">>, <<"5">>, <<"1", "2", "0">>,
     <<" ">>, <<"a">>, <<"U+0B2C">>}
RECURSIVE ConcatPieces(_)
ConcatPieces(pieces) ==
    IF pieces = <<>> THEN <<>> ELSE Head(pieces) \o ConcatPieces(Tail(pieces))
AgeTexts ==
    {ConcatPieces(pieces) : pieces \in UNION {[1 .. n -> AgePieces] : n \in 0 .. MaxPieces}}

InitAge ==
    /\ agPc = "call" /\ agText \in AgeTexts /\ agResult = 0
    /\ AnchorIdle /\ DetectIdle /\ PageIdle /\ TransIdle
    /\ ExtractIdle /\ ValidateIdle /\ ParseIdle /\ RollIdle /\ WorkerIdle

\* extractAge(text) returns.
ExtractAge ==
    /\ agPc = "call"
    /\ agResult' = extractAge(agText)
    /\ agPc' = "done"
    /\ UNCHANGED <<agText, anchorVars, detectVars, pageVars, transVars,
                   extractVars, validateVars, parseVars, rollVars, workerVars>>

NextAge == ExtractAge
SpecAge == InitAge /\ [][NextAge]_vars

(***************************************************************************)
(* The worker handles of the singleton processor (SpecWorkers).  Up to     *)
(* MaxRuns runs of processPdf are started on the one exported processor,   *)
(* as the route /process/run does for each request; a run gives way to the *)
(* others at each await.  A handle is 0 (null) or the ordinal of the       *)
(* createWorker call that made it.  terminate has no caller and is left    *)
(* out.                                                                    *)
(***************************************************************************)
Runs == 1 .. MaxRuns
\* Where a run goes when initialize raises: detectVoterBlocks and
\* processPageWithBlocks catch nothing, processPdf logs and rethrows.
AfterInitFailureCarryOn == "detect"
AfterInitFailure == "raised"

InitWorkers ==
    /\ WorkerIdle
    /\ AnchorIdle /\ DetectIdle /\ PageIdle /\ TransIdle
    /\ ExtractIdle /\ ValidateIdle /\ ParseIdle /\ RollIdle /\ AgeIdle

WorkersRest == <<anchorVars, detectVars, pageVars, transVars, extractVars,
                 validateVars, parseVars, rollVars, ageVars>>

\* The run raises: processPdf rethrows to its caller.
RunRaises(r) ==
    /\ wPc' = [wPc EXCEPT ![r] = "raised"]
    /\ wHandle' = [wHandle EXCEPT ![r] = 0]

\* A request reaches processPdf; the first page goes to detectVoterBlocks,
\* which awaits initialize.
StartRun(r) ==
    /\ wPc[r] = "off"
    /\ wPc' = [wPc EXCEPT ![r] = "init"]
    /\ wPage' = [wPage EXCEPT ![r] = 1]
    /\ UNCHANGED <<worker, blockDetector, workerCreated, detectorCreated,
                   wHandle, wInitFailed, wHalfReturn, wNullUse, WorkersRest>>

\* initialize: `if (this.worker) return;`, otherwise createWorker is
\* awaited.
InitCheck(r) ==
    /\ wPc[r] = "init"
    /\ IF worker # 0
       THEN /\ wPc' = [wPc EXCEPT ![r] = "detect"]
            /\ wHalfReturn' = (wHalfReturn \/ blockDetector = 0)
       ELSE /\ wPc' = [wPc EXCEPT ![r] = "createWorker"]
            /\ UNCHANGED wHalfReturn
    /\ UNCHANGED <<worker, blockDetector, workerCreated, detectorCreated,
                   wPage, wHandle, wInitFailed, wNullUse, WorkersRest>>

\* An await of initialize fails: initialize raises.
InitFails(r) ==
    /\ wInitFailed' = [wInitFailed EXCEPT ![r] = TRUE]
    /\ wPc' = [wPc EXCEPT ![r] = AfterInitFailure]
    /\ UNCHANGED <<worker, blockDetector, workerCreated, detectorCreated>>

\* `this.worker = await createWorker(...)` settles.
CreateWorkerDone(r) ==
    /\ wPc[r] = "createWorker"
    /\ \/ /\ workerCreated' = workerCreated + 1
          /\ worker' = workerCreated + 1
          /\ wPc' = [wPc EXCEPT ![r] = "configWorker"]
          /\ UNCHANGED <<blockDetector, detectorCreated, wInitFailed>>
       \/ InitFails(r)
    /\ UNCHANGED <<wPage, wHandle, wHalfReturn, wNullUse, WorkersRest>>

\* `await this.worker.setParameters(...)` settles.
ConfigWorkerDone(r) ==
    /\ wPc[r] = "configWorker"
    /\ \/ /\ wPc' = [wPc EXCEPT ![r] = "createDetector"]
          /\ UNCHANGED <<worker, blockDetector, workerCreated, detectorCreated,
                         wInitFailed>>
       \/ InitFails(r)
    /\ UNCHANGED <<wPage, wHandle, wHalfReturn, wNullUse, WorkersRest>>

\* `this.blockDetector = await createWorker(...)` settles.
CreateDetectorDone(r) ==
    /\ wPc[r] = "createDetector"
    /\ \/ /\ detectorCreated' = detectorCreated + 1
          /\ blockDetector' = detectorCreated + 1
          /\ wPc' = [wPc EXCEPT ![r] = "configDetector"]
          /\ UNCHANGED <<worker, workerCreated, wInitFailed>>
       \/ InitFails(r)
    /\ UNCHANGED <<wPage, wHandle, wHalfReturn, wNullUse, WorkersRest>>

\* `await this.blockDetector.setParameters(...)` settles; initialize
\* returns.
ConfigDetectorDone(r) ==
    /\ wPc[r] = "configDetector"
    /\ \/ /\ wPc' = [wPc EXCEPT ![r] = "detect"]
          /\ UNCHANGED <<worker, blockDetector, workerCreated, detectorCreated,
                         wInitFailed>>
       \/ InitFails(r)
    /\ UNCHANGED <<wPage, wHandle, wHalfReturn, wNullUse, WorkersRest>>

\* detectVoterBlocks calls this.blockDetector.recognize; on a null handle
\* the call is a TypeError.
DetectCall(r) ==
    /\ wPc[r] = "detect"
    /\ IF blockDetector = 0
       THEN /\ RunRaises(r)
            /\ wNullUse' = TRUE
       ELSE /\ wPc' = [wPc EXCEPT ![r] = "detecting"]
            /\ wHandle' = [wHandle EXCEPT ![r] = blockDetector]
            /\ UNCHANGED wNullUse
    /\ UNCHANGED <<worker, blockDetector, workerCreated, detectorCreated,
                   wPage, wInitFailed, wHalfReturn, WorkersRest>>

\* The page is done: the next page goes to detectVoterBlocks, or
\* processPdf returns its results.
PageDone(r) ==
    /\ wHandle' = [wHandle EXCEPT ![r] = 0]
    /\ \/ /\ wPage[r] < MaxPages
          /\ wPage' = [wPage EXCEPT ![r] = wPage[r] + 1]
          /\ wPc' = [wPc EXCEPT ![r] = "init"]
       \/ /\ wPc' = [wPc EXCEPT ![r] = "returned"]
          /\ UNCHANGED wPage

\* A recognize call on the blockDetector settles: with no words and another
\* path to try it is called once more, otherwise the page has blocks to
\* recognize or none; a rejected call raises.
DetectDone(r) ==
    /\ wPc[r] \in {"detecting", "redetecting"}
    /\ \/ /\ wPc[r] = "detecting"
          /\ wPc' = [wPc EXCEPT ![r] = "redetecting"]
          /\ wHandle' = [wHandle EXCEPT ![r] = blockDetector]
          /\ UNCHANGED wPage
       \/ /\ wPc' = [wPc EXCEPT ![r] = "block"]
          /\ wHandle' = [wHandle EXCEPT ![r] = 0]
          /\ UNCHANGED wPage
       \/ PageDone(r)
       \/ RunRaises(r) /\ UNCHANGED wPage
    /\ UNCHANGED <<worker, blockDetector, workerCreated, detectorCreated,
                   wInitFailed, wHalfReturn, wNullUse, WorkersRest>>

\* processVoterBlock calls this.worker.recognize.
BlockCall(r) ==
    /\ wPc[r] = "block"
    /\ wPc' = [wPc EXCEPT ![r] = "recognizing"]
    /\ wHandle' = [wHandle EXCEPT ![r] = worker]
    /\ UNCHANGED <<worker, blockDetector, workerCreated, detectorCreated,
                   wPage, wInitFailed, wHalfReturn, wNullUse, WorkersRest>>

\* The recognize call on the worker settles: the next block follows, or the
\* page is done; a rejected call raises.
BlockDone(r) ==
    /\ wPc[r] = "recognizing"
    /\ \/ /\ wPc' = [wPc EXCEPT ![r] = "block"]
          /\ wHandle' = [wHandle EXCEPT ![r] = 0]
          /\ UNCHANGED wPage
       \/ PageDone(r)
       \/ RunRaises(r) /\ UNCHANGED wPage
    /\ UNCHANGED <<worker, blockDetector, workerCreated, detectorCreated,
                   wInitFailed, wHalfReturn, wNullUse, WorkersRest>>

NextWorkers ==
    \E r \in Runs :
        \/ StartRun(r)
        \/ InitCheck(r)
        \/ CreateWorkerDone(r)
        \/ ConfigWorkerDone(r)
        \/ CreateDetectorDone(r)
        \/ ConfigDetectorDone(r)
        \/ DetectCall(r)
        \/ DetectDone(r)
        \/ BlockCall(r)
        \/ BlockDone(r)
SpecWorkers == InitWorkers /\ [][NextWorkers]_vars

(***************************************************************************)
(* Properties of the orchestrator (SpecDetect).                            *)
(***************************************************************************)
Entered(state) == state \in Range(entered)

\* C1: the three strategies are evaluated in the order Anchor, Structural,
\* Grid; Structural is entered only after Anchor produced no block and lines
\* exist, Grid only after every earlier state produced no block; and the
\* list returned is the output of exactly one state: Anchor's if it is not
\* empty, else Structural's if that is not empty, else Grid's.
C1_StrictFallbackOrder ==
    /\ entered \in {<<>>, <<"Anchor">>, <<"Anchor", "Structural">>,
                    <<"Anchor", "Grid">>, <<"Anchor", "Structural", "Grid">>}
    /\ Entered("Structural") => (anchorOut = <<>> /\ Len(data.lines) > 0)
    /\ Entered("Grid") => (anchorOut = <<>> /\ structOut = <<>>)
    /\ pc = "done" =>
          voterBlocks = (IF anchorOut # <<>> THEN anchorOut
                         ELSE IF structOut # <<>> THEN structOut
                         ELSE gridOut)

\* Each of the three states has supplied the result of some finished run.
C1_Witness ==
    /\ pc = "done" /\ entered = <<"Anchor", "Structural">>
    /\ voterBlocks # <<>> /\ voterBlocks = structOut

\* C2 as stated: whatever recognition returns, a page of positive width and
\* height ends with a non-empty block list.
C2_AlwaysSomeBlock ==
    pc = "done" => (pageW > 0 /\ pageH > 0 => voterBlocks # <<>>)

\* C2 as amended: the block list is non-empty whenever one grid row fits
\* between the margins, height - 2 * floor(0.02 * width) >= 200; on a
\* shorter page with no anchor and no line it is empty.
C2_SomeBlockWhenARowFits ==
    pc = "done" =>
        LET fits == pageH - 2 * ((2 * pageW) \div 100) >= 200
        IN  /\ fits => voterBlocks # <<>>
            /\ (~fits /\ Entered("Grid")) => voterBlocks = <<>>

\* Grid has been the terminal fallback of a page without words and lines.
C2_Witness ==
    /\ pc = "done" /\ Entered("Grid") /\ voterBlocks # <<>>
    /\ data.words = <<>> /\ data.lines = <<>>

\* C4: every block returned, by whichever strategy, lies inside the page
\* and has positive width and height.
C4_BoundaryInsidePage ==
    \A i \in DOMAIN voterBlocks :
        LET b == voterBlocks[i].boundary
        IN  /\ b.x >= 0 /\ b.y >= 0 /\ b.width > 0 /\ b.height > 0
            /\ b.x + b.width <= pageW
            /\ b.y + b.height <= pageH

\* C7 as stated: Grid returns 3 * ceil((H - 2 * margin) / 200) blocks.
C7_GridCountCeil ==
    Entered("Grid") =>
        LET q == pageH - 2 * ((2 * pageW) \div 100)
        IN  Len(gridOut) = 3 * (-((-q) \div 200))

\* C7 as amended: Grid returns 3 * floor((H - 2 * margin) / 200) blocks, and
\* none when that quotient is negative.
C7_GridCountFloor ==
    Entered("Grid") =>
        LET q == pageH - 2 * ((2 * pageW) \div 100)
        IN  Len(gridOut) = 3 * Max2(0, q \div 200)

\* Grid has run on a page whose usable height is no multiple of the row.
C7_Witness ==
    /\ Entered("Grid") /\ Len(gridOut) >= 6
    /\ (pageH - 2 * ((2 * pageW) \div 100)) % 200 # 0

(***************************************************************************)
(* Properties of the anchor strategy (SpecAnchor).                         *)
(***************************************************************************)
AnchorY(block) == block.referenceWord.bbox.y0

\* C3: for two anchors A, B that follow each other down the page (A above B,
\* no other anchor between them), the block of A ends at or above the top
\* of B's word.
C3_NoBleedIntoNextRecord ==
    fvPc = "returned" =>
        \A i, j \in DOMAIN fvBlocks :
            (/\ AnchorY(fvBlocks[i]) < AnchorY(fvBlocks[j])
             /\ ~\E k \in DOMAIN fvBlocks :
                    /\ AnchorY(fvBlocks[i]) < AnchorY(fvBlocks[k])
                    /\ AnchorY(fvBlocks[k]) < AnchorY(fvBlocks[j]))
            => fvBlocks[i].boundary.y + fvBlocks[i].boundary.height
                  <= AnchorY(fvBlocks[j])

\* C5: the id of every word whose cleaned text matches the strict grammar is
\* the id of exactly one block, and that block carries the highest confidence
\* of all candidates with this id.
C5_OncePerIdHighestConfidence ==
    fvPc = "returned" =>
        \A w \in Range(fvData.words) :
            voterIdPattern(CleanText(w.text)) =>
                LET id == CleanText(w.text)
                    cands == voterIdCandidates(fvData.words)
                    mine == {k \in DOMAIN cands : cands[k].voterId = id}
                    kept == {i \in DOMAIN fvBlocks : fvBlocks[i].voterId = id}
                IN  /\ Cardinality(kept) = 1
                    /\ \A i \in kept : \A k \in mine :
                          fvBlocks[i].confidence >= cands[k].confidence
                    /\ \A i \in kept : \E k \in mine :
                          /\ fvBlocks[i].confidence = cands[k].confidence
                          /\ fvBlocks[i].referenceWord = cands[k].word

\* Two candidates of different confidence carried the same strict id.
C5_Witness ==
    /\ fvPc = "returned"
    /\ \E w \in Range(fvData.words) :
          /\ voterIdPattern(CleanText(w.text))
          /\ LET cands == voterIdCandidates(fvData.words)
             IN  \E k, l \in DOMAIN cands :
                    /\ cands[k].voterId = CleanText(w.text)
                    /\ cands[l].voterId = CleanText(w.text)
                    /\ cands[k].confidence < cands[l].confidence

\* C6: every id handed on is, as a whole, 3 letters and 7 digits or, for a
\* relaxed match, 2 to 4 letters and 6 to 8 digits.
C6_IdIsWholeGrammar ==
    fvPc = "returned" =>
        \A i \in DOMAIN fvBlocks :
            \/ LettersDigitsWhole(fvBlocks[i].voterId, 3, 3, 7, 7)
            \/ LettersDigitsWhole(fvBlocks[i].voterId, 2, 4, 6, 8)

(***************************************************************************)
(* Properties of the page pipeline (SpecPage).                             *)
(***************************************************************************)
\* The blocks among the first n of the page whose crop did not fail.
CropSurvivors(n) ==
    SelectSeq(SubSeq(pageBlocks, 1, n), LAMBDA b : b.blockIndex \notin cropFailed)

\* C8: a crop that fails removes its own block only: what cropVoterBlocks
\* has collected, and what it returns, are the blocks whose crop succeeded,
\* in their original order; and a failed crop does not make the call raise:
\* the page goes on to recognition.
C8_CropFailureIsolated ==
    /\ croppedBlocks = CropSurvivors(cropIdx)
    /\ raisedBy # "crop"
    /\ (pagePc = "crop" /\ cropFailed # {}) => runStatus = "running"

\* A crop failed before a later crop of the same page succeeded.
C8_Witness ==
    /\ pagePc = "recognize" /\ cropFailed # {} /\ croppedBlocks # <<>>
    /\ \E i \in cropFailed :
          croppedBlocks[Len(croppedBlocks)].blockIndex > i

\* C9: a recognition that raises on one block removes that block only: the
\* run is not aborted, and the page's other blocks are recognized.
C9_RecognitionFailureIsolated ==
    recogFailed # {} => runStatus # "raised"

(***************************************************************************)
(* Properties of the translation cache (SpecTranslate).                    *)
(***************************************************************************)
\* C10 as stated: two calls with the same normalized text issue at most one
\* external call, however they interleave and however the call ends.
C10_AtMostOneExternalCall ==
    \A k \in CacheKeys : callsFor[k] <= 2 => extCalls[k] <= 1

\* C10 as amended: when no two lookups overlap, every external call for a
\* text beyond the first follows a failed one: two calls one after the
\* other issue at most one external call if the first one's succeeded.
C10_OneExternalCallPerSuccess ==
    ~overlapped => \A k \in CacheKeys : extCalls[k] <= extFailures[k] + 1

\* Two lookups of one text, one after the other, the second answered from
\* the cache.
C10_Witness ==
    /\ ~overlapped
    /\ \A c \in Callers : tPc[c] = "idle"
    /\ \E k \in CacheKeys :
          /\ callsFor[k] = 2 /\ extCalls[k] = 1 /\ extFailures[k] = 0
          /\ IsCached(cache, k)
          /\ \E c \in Callers : tNorm[c] = k /\ tText[c] # k /\ tRet[c] = cache[k]

\* A lookup of caller c ends in this step.
Returns(c) == tPc[c] # "idle" /\ tPc'[c] = "idle"

\* C11: when the external call fails, translateToEnglish returns (it does
\* not raise) the transliteration romanizeOdia makes of the normalized text
\* and leaves the cache as it was; the cache never holds a transliteration,
\* so a later lookup of the text is answered only by the cache of a
\* successful call or by a new external call, and a successful external
\* call stores the translation it returns.
C11_FailureDegradesWithoutCaching ==
    [][\A c \in Callers :
          /\ (tPc[c] = "translate" /\ Returns(c) /\ extFailures' # extFailures)
                => /\ tRet'[c] = romanizeOdia(tNorm[c])
                   /\ cache' = cache
          /\ (tPc[c] = "translate" /\ Returns(c) /\ extFailures' = extFailures)
                => /\ tRet'[c] \in Translations
                   /\ IsCached(cache', tNorm[c])
                   /\ cache'[tNorm[c]] = tRet'[c]
          /\ (tPc[c] = "import" /\ Returns(c) /\ extFailures[tNorm'[c]] > 0)
                => /\ IsCached(cache, tNorm'[c])
                   /\ cache[tNorm'[c]] \in Translations
                   /\ tRet'[c] = cache[tNorm'[c]]
      ]_vars

\* A lookup that failed and got the transliteration, then a lookup of the
\* same text that issued a second external call and cached its answer.
C11_Witness ==
    /\ ~overlapped
    /\ \E k \in CacheKeys : \E c1, c2 \in Callers :
          /\ c1 # c2 /\ tPc[c1] = "idle" /\ tPc[c2] = "idle"
          /\ tNorm[c1] = k /\ tNorm[c2] = k
          /\ extFailures[k] = 1 /\ extCalls[k] = 2
          /\ tRet[c1] = romanizeOdia(k)
          /\ IsCached(cache, k) /\ tRet[c2] = cache[k]
          /\ cache[k] \in Translations

\* C12: any two external calls start at least minRequestInterval apart.
C12_MinimumSpacing == ~spacingBroken

\* C13: a lookup of a text without an Odia code point, or whose normalized
\* text has fewer than 3 characters, returns the text as it was given and
\* issues no external call.
C13_ReturnsTextUnchanged ==
    \A c \in Callers :
        (/\ tPc[c] = "idle" /\ tText[c] # <<>>
         /\ (~isOdiaText(tText[c]) \/ Len(normalizeText(tText[c])) < 3))
          => /\ tRet[c] = tText[c]
             /\ extCalls[normalizeText(tText[c])] = 0

(***************************************************************************)
(* Properties of the cache under its explicit operations (SpecCache).      *)
(***************************************************************************)
\* C14: in every step other than clearCache and the assignment of loadCache
\* every entry of the cache keeps its key and its value.
C14_EntriesKeptExceptClearLoad ==
    [][\/ \A k \in DOMAIN cache : IsCached(cache', k) /\ cache'[k] = cache[k]
       \/ ClearCache
       \/ LoadCacheDone
      ]_vars

\* C14 as amended: outside clearCache and loadCache no key leaves the cache,
\* and a value changes only when a lookup of that key, which had found the
\* cache without the entry, stores the answer of its own external call.
C14_KeysKeptValuesSetByOwnLookup ==
    [][\/ \A k \in DOMAIN cache :
              /\ IsCached(cache', k)
              /\ \/ cache'[k] = cache[k]
                 \/ \E c \in Callers :
                       /\ tPc[c] = "translate" /\ tNorm[c] = k /\ Returns(c)
                       /\ cache'[k] = tRet'[c]
       \/ ClearCache
       \/ LoadCacheDone
      ]_vars

\* Entries that outlived a saveCache and further lookups, and an entry
\* replaced by the answer of a second lookup of its key.
C14_Witness ==
    /\ cacheFile.exists
    /\ \E k \in DOMAIN cache :
          /\ extCalls[k] = 2 /\ extFailures[k] = 0
          /\ \E c1, c2 \in Callers :
                /\ tNorm[c1] = k /\ tNorm[c2] = k
                /\ tPc[c1] = "idle" /\ tPc[c2] = "idle"
                /\ tRet[c1] # tRet[c2] /\ cache[k] = tRet[c2]

(***************************************************************************)
(* Properties of field extraction (SpecExtract).                           *)
(***************************************************************************)
\* The map that the labels of the text spell out.
Labelled(fs) ==
    [name \in {keys[fs[i].field].keyName : i \in DOMAIN fs} |->
        FieldValues[CHOOSE g \in DOMAIN keys : keys[g].keyName = name]]

\* C18: for a text of labelled fields, one label per field, each with its
\* value, extractKeyValues returns the same map in whatever order the
\* fields stand, and every field of the map holds its own value: no field
\* takes the value of another.
C18_OrderIndependent ==
    (kvPc = "done" /\ \A i \in DOMAIN kvFields : ~kvFields[i].blank)
      => /\ kvResult = kvCanonical
         /\ kvResult = Labelled(kvFields)

\* C19: no value that extractKeyValues returns holds a field of its own:
\* extractKeyValues finds nothing in it.
C19_NoNestedField ==
    kvPc = "done" =>
        \A name \in DOMAIN kvResult :
            DOMAIN extractKeyValues(kvResult[name]) = {}

(***************************************************************************)
(* Properties of record validation (SpecValidate) and of the record parser *)
(* (SpecParse).                                                            *)
(***************************************************************************)
\* The candidates of the model that isValidVoter accepts.
ValidCandidates ==
    {c \in {o.voter : o \in BlockOutcomes \cup ChunkOutcomes} : isValidVoter(c)}

\* C15: every record of the Roll passed isValidVoter when it was added, on
\* the per-block path and on the page-text path; the Roll holds the
\* candidates found valid, in their order, and nothing else; and no
\* candidate is validated a second time.
C15_RollHoldsValidatedOnly ==
    LET accepted == SelectSeq(prChecked, LAMBDA c : c.valid)
    IN  /\ \A i \in DOMAIN voters : voters[i] \in ValidCandidates
        /\ voters \o prPageVoters = [i \in DOMAIN accepted |-> accepted[i].voter]
        /\ \A i, j \in DOMAIN prChecked :
              (prChecked[i].page = prChecked[j].page
                 /\ prChecked[i].item = prChecked[j].item) => i = j

\* A Roll returned with a record in it after a candidate was rejected.
C15_Witness ==
    /\ prPc = "done" /\ voters # <<>>
    /\ \E i \in DOMAIN prChecked : ~prChecked[i].valid
    /\ \E i \in DOMAIN prChecked : prChecked[i].valid

\* C16: a record is found valid only if its identifier is exactly 3
\* letters followed by exactly 7 digits.
C16_OnlyStrictIdsAccepted ==
    (vPc = "done" /\ vResult) => LettersDigitsWhole(vVoter.voterId, 3, 3, 7, 7)

\* The name and the identifier of the record pass the tests of isValidVoter.
IdAndNameValid(voter) ==
    /\ voter.voterId # <<>> /\ IdMatches(voter.voterId)
    /\ Len(voter.name.odia) > 2
    /\ ~\E label \in Range(labelWords) : Includes(voter.name.odia, label)

\* C17: for a record whose identifier and name are valid, the ages 17 and
\* 121 are rejected and the ages 18 and 120 accepted; the record is valid
\* exactly when its age is within 18..120.
C17_InclusiveAgeBounds ==
    (vPc = "done" /\ IdAndNameValid(vVoter))
      => /\ vVoter.age \in {17, 121} => ~vResult
         /\ vVoter.age \in {18, 120} => vResult
         /\ vResult <=> vVoter.age \in 18 .. 120

\* A record of age 120 found valid.
C17_Witness ==
    vPc = "done" /\ IdAndNameValid(vVoter) /\ vVoter.age = 120 /\ vResult

\* C20: the record parsed from the block of the worked example holds the
\* woman's name, the relation type Husband, the husband's name, the age 37
\* and the gender Female.
C20_SampleRecord ==
    \A i \in DOMAIN prCandidate :
        (prCandidate[i].block.voterId = SampleId
           /\ prCandidate[i].block.text = SampleText)
          => /\ prCandidate[i].voter.voterId = SampleId
             /\ prCandidate[i].voter.name.odia = SampleName
             /\ prCandidate[i].voter.relation.type = "Husband"
             /\ prCandidate[i].voter.relation.name.odia = SampleRelationName
             /\ prCandidate[i].voter.age = 37
             /\ prCandidate[i].voter.gender = "Female"

(***************************************************************************)
(* Retries and line grouping of the orchestrator (SpecDetect).             *)
(***************************************************************************)
\* C21, as stated: the first recognition is followed by a second one
\* exactly when it yields no word.
C21_RetryWheneverNoWords ==
    [][(pc = "recognize" /\ pc' # "recognize")
         => (pc' = "retry" <=> Len(data'.words) = 0)]_vars

\* C21: the first recognition, of imagePath, is followed by a second one
\* exactly when it yields no word and the alternate image is another file
\* than imagePath; the second one is of the alternate image and is the
\* last; no other step recognizes, so a page is recognized twice at most.
C21_RetryOnceWhenAlternateExists ==
    [][/\ (pc = "recognize" /\ pc' # "recognize")
            => /\ recognized' = <<imagePath>>
               /\ pc' = "retry" <=> (/\ Len(data'.words) = 0
                                     /\ originalPath(imagePath) # imagePath)
               /\ pc' \in {"retry", "anchor"}
       /\ (pc = "retry" /\ pc' # "retry")
            => /\ recognized' = <<imagePath, originalPath(imagePath)>>
               /\ pc' = "anchor"
       /\ pc \notin {"recognize", "retry"} => recognized' = recognized
       /\ Len(recognized') <= 2]_vars

\* A page whose first recognition found no word, recognized a second time
\* from the alternate image, and detection went on to its end.
C21_Witness ==
    /\ pc = "done" /\ Len(recognized) = 2
    /\ recognized[1] = imagePath /\ recognized[2] # imagePath

\* The number of lines whose top edge is more than 40px below the bottom
\* edge of the line before.
WideGaps(lines) ==
    Cardinality({i \in 2 .. Len(lines) :
                    lines[i].bbox.y0 - lines[i - 1].bbox.y1 > 40})

\* C26: the lines are cut into groups exactly where the gap to the line
\* before exceeds 40px, a gap of exactly 40px staying inside the group, and
\* every group yields one block: the Structural strategy returns one block
\* more than there are gaps over 40px.
C26_NewGroupOnlyOverForty ==
    (pc = "done" /\ \E i \in DOMAIN entered : entered[i] = "Structural")
      => Len(structOut) = 1 + WideGaps(data.lines)

(***************************************************************************)
(* Reference words of the anchor strategy (SpecAnchor).                    *)
(***************************************************************************)
\* C30: no two blocks returned by findVoterBlockBoundaries have the same
\* reference word.
C30_OneBlockPerWord ==
    fvPc = "returned"
      => \A i, j \in DOMAIN fvBlocks :
            i # j => fvBlocks[i].referenceWord # fvBlocks[j].referenceWord

(***************************************************************************)
(* Properties of parseElectoralRoll (SpecRoll).                            *)
(***************************************************************************)
\* The results are pages as processPdf returns them, one at least.
FromProcessPdf(pages) ==
    Len(pages) >= 1 /\ \A i \in DOMAIN pages : pages[i] \in ProcessPdfPages
RECURSIVE SumBlocks(_)
SumBlocks(pages) ==
    IF pages = <<>> THEN 0 ELSE pages[1].blocks + SumBlocks(Tail(pages))
RECURSIVE SumIds(_)
SumIds(pages) ==
    IF pages = <<>> THEN 0
    ELSE Len(IdChunks(pages[1].text)) + SumIds(Tail(pages))

\* C25: on the results of processPdf, of one page at least,
\* parseElectoralRoll does not raise, and when it has returned every block
\* of every page was looked at as a candidate record.
C25_ParsesProcessPdfResults ==
    FromProcessPdf(ocrResults)
      => /\ rlPc # "raised"
         /\ rlPc = "returned" => rlConsidered = SumBlocks(ocrResults)

\* C28: the statistics of a returned Roll count the identifiers of all
\* pages: totalVoters is their number, maleVoters floor(51*totalVoters/100)
\* and femaleVoters floor(49*totalVoters/100).
C28_StatisticsOverAllPages ==
    rlPc = "returned"
      => /\ rollStats[1].totalVoters = SumIds(ocrResults)
         /\ rollStats[1].maleVoters = (51 * SumIds(ocrResults)) \div 100
         /\ rollStats[1].femaleVoters = (49 * SumIds(ocrResults)) \div 100

\* C29: the serial numbers of the records of the Roll returned are
\* strictly increasing in list order, hence pairwise distinct.
C29_SerialNumbersIncrease ==
    prPc = "done"
      => \A i, j \in DOMAIN voters : i < j => voters[i].serialNo < voters[j].serialNo

\* True when a two-digit number stands alone at position i of the text.
TwoDigitTokenAt(text, i) ==
    /\ i + 1 <= Len(text)
    /\ text[i] \in DigitChars /\ text[i + 1] \in DigitChars
    /\ (i = 1 \/ ~IsWordChar(text[i - 1]))
    /\ (i + 1 = Len(text) \/ ~IsWordChar(text[i + 2]))
DigitValue(c) ==
    CHOOSE n \in 0 .. 9 : <<"0", "1", "2", "3", "4", "5", "6", "7", "8", "9">>[n + 1] = c
NumberAt(text, i) == 10 * DigitValue(text[i]) + DigitValue(text[i + 1])

\* C27: extractAge returns the first stand-alone two-digit number of the
\* text that lies within 18..120, and 25 when there is none; the age of
\* every record the parser builds is therefore within 18..120.
C27_FirstAgeInRange ==
    /\ agPc = "done" =>
          LET fits == {i \in DOMAIN agText :
                         TwoDigitTokenAt(agText, i) /\ NumberAt(agText, i) \in 18 .. 120}
          IN  /\ agResult \in 18 .. 120
              /\ fits = {} => agResult = 25
              /\ fits # {} =>
                    \E i \in fits : /\ \A j \in fits : i <= j
                                     /\ agResult = NumberAt(agText, i)
    /\ \A o \in BlockOutcomes \cup ChunkOutcomes : o.voter.age \in 18 .. 120
\* A number under the range is passed over for a later one within it.
C27_Witness ==
    /\ agPc = "done"
    /\ agText = <<"1", "7", " ", "3", "7">>
    /\ agResult = 37

(***************************************************************************)
(* Properties of the worker handles (SpecWorkers).                         *)
(***************************************************************************)
\* The recognize calls in flight on the blockDetector, and on the worker.
OnDetector == {r \in Runs : wPc[r] \in {"detecting", "redetecting"}}
OnWorker == {r \in Runs : wPc[r] = "recognizing"}

\* C22: at any time at most one recognize call is in flight on a
\* blockDetector handle and at most one on a worker handle, also with two
\* runs started on the one processor.
C22_OneCallPerHandle ==
    \A r1, r2 \in Runs :
        /\ r1 # r2
        /\ \/ {r1, r2} \subseteq OnDetector
           \/ {r1, r2} \subseteq OnWorker
        => wHandle[r1] # wHandle[r2]

\* C23: each handle is created once at most, whatever the callers of
\* initialize do, and after initialize has returned neither handle is null
\* nor used while null.
C23_HandlesCreatedOnce ==
    /\ workerCreated <= 1 /\ detectorCreated <= 1
    /\ ~wHalfReturn /\ ~wNullUse

\* C24: once an await of initialize has failed in a run, the run has raised
\* and stays so: it never returns results and goes to no further page.
C24_InitFailureIsFatal ==
    [][\A r \in Runs :
          wInitFailed'[r] => wPc'[r] = "raised" /\ wPage'[r] = wPage[r]]_vars
\* A run whose initialize failed on its first page, one page short of the
\* document, while another run has gone on.
C24_Witness ==
    \E r, q \in Runs :
        /\ wInitFailed[r] /\ wPc[r] = "raised" /\ wPage[r] = 1
        /\ ~wInitFailed[q] /\ wPc[q] = "returned"

====
